---- MODULE Spec2Model ----
(***************************************************************************)
(* Model of the snapshot restore engine of the mail server                 *)
(* (crates/common/src/manager/restore.rs): Core::restore, restore_file,    *)
(* OpReader and the Family tag mapping.                                    *)
(*                                                                         *)
(* Bytes are naturals 0..255.  A u32 is kept as its 4 big-endian bytes     *)
(* and a u64 / i64 as its 8 bytes, so that the u32::MAX sentinel and the   *)
(* full width of every id are representable.                               *)
(***************************************************************************)
EXTENDS Integers, Sequences, FiniteSets, TLC

VARIABLES src, proc, tasks, joined, writes, blobs

vars == <<src, proc, tasks, joined, writes, blobs>>

(***************************************************************************)
(* Program constants                                                       *)
(***************************************************************************)
MAGIC_MARKER == 123
FILE_VERSION == 1
FlushThreshold == 1000
CollectionMailbox == 1
PropertyEmailIds == 34
BLOB_HASH_LEN == 32
U32_LEN == 4
U64_LEN == 8

U32_MAX == <<255, 255, 255, 255>>
U8_MAX == 255

(***************************************************************************)
(* Byte-slice helpers (DeserializeBigEndian, slice::get, i64::deserialize, *)
(* leb128, RoaringBitmap::deserialize_from).  None is the failed result.   *)
(***************************************************************************)
None == <<>>

Drop(s, n) == SubSeq(s, n + 1, Len(s))

\* key.deserialize_u8(i) / key.get(i): the byte at 0-based index i.
deserialize_u8(s, i) == IF i + 1 <= Len(s) THEN <<s[i + 1]>> ELSE None

\* key.deserialize_be_u32(i): the 4 bytes at 0-based index i.
deserialize_be_u32(s, i) ==
    IF i + U32_LEN <= Len(s) THEN SubSeq(s, i + 1, i + U32_LEN) ELSE None

\* key.deserialize_be_u64(i): the 8 bytes at 0-based index i.
deserialize_be_u64(s, i) ==
    IF i + U64_LEN <= Len(s) THEN SubSeq(s, i + 1, i + U64_LEN) ELSE None

\* i64::deserialize(&value): exactly 8 bytes.
deserialize_i64(s) == IF Len(s) = U64_LEN THEN s ELSE None

\* deserialize_leb128 of a u32: the 7-bit groups up to and including the
\* first byte with a clear continuation bit; None when no such byte exists
\* within the 5 bytes a u32 may take.
deserialize_leb128(s) ==
    LET stops == {i \in 1..Len(s) : i <= 5 /\ s[i] < 128}
    IN  IF stops = {} THEN None
        ELSE LET n == CHOOSE i \in stops : \A j \in stops : i <= j
             IN  [i \in 1..n |-> s[i] % 128]

\* Lexicographic order on big-endian u32 values.
U32Less(a, b) ==
    \E i \in 1..4 : a[i] < b[i] /\ \A j \in 1..(i - 1) : a[j] = b[j]

\* RoaringBitmap::deserialize_from: the serialized set, abstracted as the
\* concatenation of the contained ids (4 bytes each) in ascending order;
\* anything else fails to deserialize.  Iteration is in ascending order.
deserialize_bitmap(s) ==
    IF Len(s) % 4 # 0 THEN None
    ELSE LET ids == [i \in 1..(Len(s) \div 4) |-> SubSeq(s, 4 * i - 3, 4 * i)]
         IN  IF \A i \in 1..(Len(ids) - 1) : U32Less(ids[i], ids[i + 1])
             THEN <<"Some", ids>> ELSE None

(***************************************************************************)
(* Operations of a batch (store::write::Operation)                         *)
(***************************************************************************)
OpAccountId(a) == [op |-> "AccountId", class |-> <<>>, arg |-> a]
OpCollection(c) == [op |-> "Collection", class |-> <<>>, arg |-> <<c>>]
OpDocumentId(d) == [op |-> "DocumentId", class |-> <<>>, arg |-> d]
OpSet(class, value) == [op |-> "Set", class |-> class, arg |-> value]
OpAdd(class, delta) == [op |-> "Add", class |-> class, arg |-> delta]
OpIndex(field, key) == [op |-> "Index", class |-> <<"Index", field, key>>, arg |-> <<1>>]
OpBitmap(class) == [op |-> "Bitmap", class |-> class, arg |-> <<1>>]
OpLog(change_id, collection, set) ==
    [op |-> "Log", class |-> <<"Log", change_id, collection>>, arg |-> set]

IsContextOp(o) == o.op \in {"AccountId", "Collection", "DocumentId"}

\* BatchBuilder::new, with_account_id, with_collection, update_document
BatchNew == <<>>
with_account_id(batch, a) == Append(batch, OpAccountId(a))
with_collection(batch, c) == Append(batch, OpCollection(c))
update_document(batch, d) == Append(batch, OpDocumentId(d))

\* BatchBuilder::is_empty: no operation other than context operations.
is_empty(batch) == \A i \in 1..Len(batch) : IsContextOp(batch[i])

(***************************************************************************)
(* OpReader: the record stream of one file.  pos is the number of bytes    *)
(* consumed so far.                                                        *)
(***************************************************************************)
\* FamilyTryFrom with every unknown byte taken for Config.
FamilyTryFromLenient(value) ==
    CASE value = 0 -> "Property"
      [] value = 1 -> "TermIndex"
      [] value = 2 -> "Acl"
      [] value = 3 -> "Blob"
      [] value = 5 -> "LookupValue"
      [] value = 6 -> "LookupCounter"
      [] value = 7 -> "Directory"
      [] value = 8 -> "Queue"
      [] value = 9 -> "Index"
      [] value = 10 -> "Bitmap"
      [] value = 11 -> "Log"
      [] OTHER -> "Config"

\* impl TryFrom<u8> for Family
FamilyTryFrom(value) ==
    CASE value = 0 -> "Property"
      [] value = 1 -> "TermIndex"
      [] value = 2 -> "Acl"
      [] value = 3 -> "Blob"
      [] value = 4 -> "Config"
      [] value = 5 -> "LookupValue"
      [] value = 6 -> "LookupCounter"
      [] value = 7 -> "Directory"
      [] value = 8 -> "Queue"
      [] value = 9 -> "Index"
      [] value = 10 -> "Bitmap"
      [] value = 11 -> "Log"
      [] OTHER -> "Err"

\* OpReaderNew without the test of the version byte.
OpReaderNewAnyVersion(file) ==
    /\ Len(file) >= 2
    /\ file[1] = MAGIC_MARKER

\* OpReader::new: TRUE when the two header bytes are read and match.
OpReaderNew(file) ==
    /\ Len(file) >= 1
    /\ file[1] = MAGIC_MARKER
    /\ Len(file) >= 2
    /\ file[2] = FILE_VERSION

Rec(kind, a, b, pos) == [kind |-> kind, a |-> a, b |-> b, pos |-> pos]
RecFailed == Rec("Failed", <<>>, <<>>, 0)

\* OpReader::expect_u8
expect_u8(file, pos) ==
    IF pos + 1 <= Len(file) THEN [ok |-> TRUE, val |-> <<file[pos + 1]>>, pos |-> pos + 1]
    ELSE [ok |-> FALSE, val |-> <<>>, pos |-> pos]

\* OpReader::expect_u32_be
expect_u32_be(file, pos) ==
    IF pos + 4 <= Len(file)
    THEN [ok |-> TRUE, val |-> SubSeq(file, pos + 1, pos + 4), pos |-> pos + 4]
    ELSE [ok |-> FALSE, val |-> <<>>, pos |-> pos]

\* The length a 4-byte prefix announces.  A prefix of 2^24 or more exceeds
\* every file of the model and is kept as one number larger than any of them.
LenOfU32(b) ==
    IF b[1] > 0 THEN 16777216 ELSE b[2] * 65536 + b[3] * 256 + b[4]

\* expect_sized_bytes with read in place of read_exact: a payload the file
\* cuts short is returned as far as it goes.
expect_sized_bytes_short(file, pos) ==
    LET l == expect_u32_be(file, pos)
    IN  IF ~l.ok THEN [ok |-> FALSE, val |-> <<>>, pos |-> pos]
        ELSE LET len == LenOfU32(l.val)
                 end == IF l.pos + len <= Len(file) THEN l.pos + len ELSE Len(file)
             IN  [ok |-> TRUE, val |-> SubSeq(file, l.pos + 1, end), pos |-> end]

\* OpReader::expect_sized_bytes
expect_sized_bytes(file, pos) ==
    LET l == expect_u32_be(file, pos)
    IN  IF ~l.ok THEN [ok |-> FALSE, val |-> <<>>, pos |-> pos]
        ELSE LET len == LenOfU32(l.val)
             IN  IF l.pos + len <= Len(file)
                 THEN [ok |-> TRUE, val |-> SubSeq(file, l.pos + 1, l.pos + len),
                       pos |-> l.pos + len]
                 ELSE [ok |-> FALSE, val |-> <<>>, pos |-> pos]

\* OpReader::next: kind "None" is the clean end of the stream, "Failed" a
\* fatal error (failed(..) ends the process).
OpReaderNext(file, pos) ==
    IF pos >= Len(file) THEN Rec("None", <<>>, <<>>, pos)
    ELSE LET byte == file[pos + 1]
             p == pos + 1
         IN  CASE byte = 0 ->
                    LET f == expect_u8(file, p)
                    IN  IF f.ok /\ FamilyTryFrom(f.val[1]) # "Err"
                        THEN Rec("Family", <<FamilyTryFrom(f.val[1])>>, <<>>, f.pos)
                        ELSE RecFailed
               [] byte = 1 ->
                    LET k == expect_sized_bytes(file, p)
                        v == expect_sized_bytes(file, k.pos)
                    IN  IF k.ok /\ v.ok THEN Rec("KeyValue", k.val, v.val, v.pos)
                        ELSE RecFailed
               [] byte = 2 ->
                    LET k == expect_sized_bytes(file, p)
                    IN  IF k.ok THEN Rec("KeyValue", k.val, <<>>, k.pos)
                        ELSE RecFailed
               [] byte = 3 ->
                    LET a == expect_u32_be(file, p)
                    IN  IF a.ok THEN Rec("AccountId", a.val, <<>>, a.pos) ELSE RecFailed
               [] byte = 4 ->
                    LET c == expect_u8(file, p)
                    IN  IF c.ok THEN Rec("Collection", c.val, <<>>, c.pos) ELSE RecFailed
               [] byte = 5 ->
                    LET d == expect_u32_be(file, p)
                    IN  IF d.ok THEN Rec("DocumentId", d.val, <<>>, d.pos) ELSE RecFailed
               [] OTHER -> RecFailed

(***************************************************************************)
(* restore_file: translation of one KeyValue record under the decode       *)
(* context.  The result says how the record ends:                          *)
(*   "ok"     its operations are appended to the batch;                    *)
(*   "bitmap" a Bitmap record: class and document ids to expand;           *)
(*   "failed" failed(..): the process exits;                               *)
(*   "panic"  an .expect(..) failed: the unit panics.                      *)
(* put holds the blob-store write the record asks for before its           *)
(* operation is appended; skip is the `continue` of Directory UsedQuota,   *)
(* which passes over the flush test that follows the match.                *)
(***************************************************************************)
Res(status, ops) ==
    [status |-> status, ops |-> ops, put |-> <<>>, skip |-> FALSE,
     class |-> <<>>, ids |-> <<>>]
ResPanic == Res("panic", <<>>)
ResFailed == Res("failed", <<>>)

\* TranslateProperty with the field alone deciding: EmailIds is additive in
\* every collection.
TranslatePropertyAnyCollection(collection, key, value) ==
    LET field == deserialize_u8(key, 0)
    IN  IF field = None THEN ResPanic
        ELSE IF PropertyEmailIds = field[1]
             THEN IF deserialize_i64(value) = None THEN ResPanic
                  ELSE Res("ok", <<OpAdd(<<"Property", field[1]>>, deserialize_i64(value))>>)
             ELSE Res("ok", <<OpSet(<<"Property", field[1]>>, value)>>)

\* Family::Property (lines 103-119)
TranslateProperty(collection, key, value) ==
    LET field == deserialize_u8(key, 0)
    IN  IF field = None THEN ResPanic
        ELSE IF collection = CollectionMailbox /\ PropertyEmailIds = field[1]
             THEN IF deserialize_i64(value) = None THEN ResPanic
                  ELSE Res("ok", <<OpAdd(<<"Property", field[1]>>, deserialize_i64(value))>>)
             ELSE Res("ok", <<OpSet(<<"Property", field[1]>>, value)>>)

\* Family::Acl (lines 123-132)
TranslateAcl(key, value) ==
    LET grantee == deserialize_be_u32(key, 0)
    IN  IF grantee = None THEN ResPanic
        ELSE Res("ok", <<OpSet(<<"Acl", grantee>>, value)>>)

\* TranslateBlob linking as soon as one of the two ids is set.
TranslateBlobEither(account_id, document_id, key, value) ==
    IF Len(key) # BLOB_HASH_LEN THEN ResPanic
    ELSE IF account_id # U32_MAX \/ document_id # U32_MAX
         THEN Res("ok", <<OpSet(<<"Blob", "Link", key>>, <<>>)>>)
         ELSE [Res("ok", <<OpSet(<<"Blob", "Commit", key>>, <<>>)>>)
                 EXCEPT !.put = <<[key |-> key, value |-> value]>>]

\* TranslateBlob with no put on the commit path: the commit operation alone.
TranslateBlobCommitOnly(account_id, document_id, key, value) ==
    IF Len(key) # BLOB_HASH_LEN THEN ResPanic
    ELSE IF account_id # U32_MAX /\ document_id # U32_MAX
         THEN Res("ok", <<OpSet(<<"Blob", "Link", key>>, <<>>)>>)
         ELSE Res("ok", <<OpSet(<<"Blob", "Commit", key>>, <<>>)>>)

\* Family::Blob (lines 133-145)
TranslateBlob(account_id, document_id, key, value) ==
    IF Len(key) # BLOB_HASH_LEN THEN ResPanic
    ELSE IF account_id # U32_MAX /\ document_id # U32_MAX
         THEN Res("ok", <<OpSet(<<"Blob", "Link", key>>, <<>>)>>)
         ELSE [Res("ok", <<OpSet(<<"Blob", "Commit", key>>, <<>>)>>)
                 EXCEPT !.put = <<[key |-> key, value |-> value]>>]

\* TranslateLookupCounter writing the value over the counter.
TranslateLookupCounterOverwrite(key, value) ==
    IF deserialize_i64(value) = None THEN ResPanic
    ELSE Res("ok", <<OpSet(<<"LookupCounter", key>>, deserialize_i64(value))>>)

\* Family::LookupCounter (lines 152-157)
TranslateLookupCounter(key, value) ==
    IF deserialize_i64(value) = None THEN ResPanic
    ELSE Res("ok", <<OpAdd(<<"LookupCounter", key>>, deserialize_i64(value))>>)

\* The two u32 of DirectoryClass::MemberOf / Members (lines 195-210)
DirectoryPair(name, key, value) ==
    LET a == deserialize_be_u32(key, 1)
        b == deserialize_be_u32(key, 1 + U32_LEN)
    IN  IF a = None \/ b = None THEN ResPanic
        ELSE Res("ok", <<OpSet(<<"Directory", name, a, b>>, value)>>)

\* TranslateDirectory with UsedQuota written like the other subtypes.
TranslateDirectoryOverwrite(key, value) ==
    IF Len(key) = 0 THEN ResPanic
    ELSE LET t == key[1]
             rest == Drop(key, 1)
         IN  CASE t = 0 -> Res("ok", <<OpSet(<<"Directory", "NameToId", rest>>, value)>>)
               [] t = 1 -> Res("ok", <<OpSet(<<"Directory", "EmailToId", rest>>, value)>>)
               [] t = 2 ->
                    IF deserialize_leb128(rest) = None THEN ResPanic
                    ELSE Res("ok", <<OpSet(<<"Directory", "Principal",
                                               deserialize_leb128(rest)>>, value)>>)
               [] t = 3 -> Res("ok", <<OpSet(<<"Directory", "Domain", rest>>, value)>>)
               [] t = 4 ->
                    IF deserialize_leb128(rest) = None THEN ResPanic
                    ELSE Res("ok", <<OpSet(<<"Directory", "UsedQuota",
                                               deserialize_leb128(rest)>>, value)>>)
               [] t = 5 -> DirectoryPair("MemberOf", key, value)
               [] t = 6 -> DirectoryPair("Members", key, value)
               [] OTHER -> ResFailed

\* Family::Directory (lines 158-215)
TranslateDirectory(key, value) ==
    IF Len(key) = 0 THEN ResPanic
    ELSE LET t == key[1]
             rest == Drop(key, 1)
         IN  CASE t = 0 -> Res("ok", <<OpSet(<<"Directory", "NameToId", rest>>, value)>>)
               [] t = 1 -> Res("ok", <<OpSet(<<"Directory", "EmailToId", rest>>, value)>>)
               [] t = 2 ->
                    IF deserialize_leb128(rest) = None THEN ResPanic
                    ELSE Res("ok", <<OpSet(<<"Directory", "Principal",
                                               deserialize_leb128(rest)>>, value)>>)
               [] t = 3 -> Res("ok", <<OpSet(<<"Directory", "Domain", rest>>, value)>>)
               [] t = 4 ->
                    IF deserialize_leb128(rest) = None \/ deserialize_i64(value) = None
                    THEN ResPanic
                    ELSE [Res("ok", <<OpAdd(<<"Directory", "UsedQuota",
                                               deserialize_leb128(rest)>>,
                                             deserialize_i64(value))>>)
                            EXCEPT !.skip = TRUE]
               [] t = 5 -> DirectoryPair("MemberOf", key, value)
               [] t = 6 -> DirectoryPair("Members", key, value)
               [] OTHER -> ResFailed

\* Family::Queue (lines 216-244)
TranslateQueue(key, value) ==
    IF Len(key) = 0 THEN ResPanic
    ELSE CASE key[1] = 0 ->
                IF deserialize_be_u64(key, 1) = None THEN ResPanic
                ELSE Res("ok", <<OpSet(<<"Queue", "Message",
                                         deserialize_be_u64(key, 1)>>, value)>>)
           [] key[1] = 1 ->
                IF deserialize_be_u64(key, 1) = None
                   \/ deserialize_be_u64(key, 1 + U64_LEN) = None
                THEN ResPanic
                ELSE Res("ok", <<OpSet(<<"Queue", "MessageEvent",
                                         deserialize_be_u64(key, 1),
                                         deserialize_be_u64(key, 1 + U64_LEN)>>, value)>>)
           [] OTHER -> ResFailed

\* Family::Index (lines 245-249)
TranslateIndex(key) ==
    IF Len(key) = 0 THEN ResPanic
    ELSE Res("ok", <<OpIndex(key[1], Drop(key, 1))>>)

\* BitmapClass of a Bitmap key (lines 253-286): <<"panic">>, <<"failed">> or
\* <<"ok", class>>.
BitmapClassOf(key) ==
    IF Len(key) = 0 THEN <<"panic">>
    ELSE CASE key[1] = 0 -> <<"ok", <<"DocumentIds">>>>
           [] key[1] = 1 ->
                IF deserialize_u8(key, 1) = None \/ deserialize_be_u32(key, 2) = None
                THEN <<"panic">>
                ELSE <<"ok", <<"Tag", key[2], "Id", deserialize_be_u32(key, 2)>>>>
           [] key[1] = 2 ->
                IF deserialize_u8(key, 1) = None THEN <<"panic">>
                ELSE <<"ok", <<"Tag", key[2], "Text", Drop(key, 2)>>>>
           [] key[1] = 3 ->
                IF deserialize_u8(key, 1) = None \/ deserialize_u8(key, 2) = None
                THEN <<"panic">>
                ELSE <<"ok", <<"Tag", key[2], "Static", <<key[3]>>>>>>
           [] key[1] = 4 ->
                IF Len(key) < 11 THEN <<"panic">>
                ELSE <<"ok", <<"Text", key[2], key[3], SubSeq(key, 4, 11)>>>>
           [] OTHER -> <<"failed">>

\* Family::Bitmap up to the expansion loop (lines 250-287): the value is
\* deserialized first, then the class is read from the key.
TranslateBitmap(key, value) ==
    LET document_ids == deserialize_bitmap(value)
        class == BitmapClassOf(key)
    IN  IF document_ids = None THEN ResPanic
        ELSE IF class[1] = "panic" THEN ResPanic
        ELSE IF class[1] = "failed" THEN ResFailed
        ELSE [Res("bitmap", <<>>) EXCEPT !.class = class[2], !.ids = document_ids[2]]

\* Family::Log (lines 307-316)
TranslateLog(collection, key, value) ==
    IF deserialize_be_u64(key, 0) = None THEN ResPanic
    ELSE Res("ok", <<OpLog(deserialize_be_u64(key, 0), collection, value)>>)

\* Translate with Family::None taken as Family::Config.
TranslateNoneAsConfig(family, account_id, document_id, collection, key, value) ==
    CASE family = "Property" -> TranslateProperty(collection, key, value)
      [] family = "TermIndex" -> Res("ok", <<OpSet(<<"TermIndex">>, key)>>)
      [] family = "Acl" -> TranslateAcl(key, value)
      [] family = "Blob" -> TranslateBlob(account_id, document_id, key, value)
      [] family = "LookupValue" -> Res("ok", <<OpSet(<<"LookupKey", key>>, value)>>)
      [] family = "LookupCounter" -> TranslateLookupCounter(key, value)
      [] family = "Directory" -> TranslateDirectory(key, value)
      [] family = "Queue" -> TranslateQueue(key, value)
      [] family = "Index" -> TranslateIndex(key)
      [] family = "Bitmap" -> TranslateBitmap(key, value)
      [] family = "Log" -> TranslateLog(collection, key, value)
      [] OTHER -> Res("ok", <<OpSet(<<"Config", key>>, value)>>)

\* The match on family of Op::KeyValue (lines 102-318)
Translate(family, account_id, document_id, collection, key, value) ==
    CASE family = "Property" -> TranslateProperty(collection, key, value)
      [] family = "TermIndex" -> Res("ok", <<OpSet(<<"TermIndex">>, key)>>)
      [] family = "Acl" -> TranslateAcl(key, value)
      [] family = "Blob" -> TranslateBlob(account_id, document_id, key, value)
      [] family = "Config" -> Res("ok", <<OpSet(<<"Config", key>>, value)>>)
      [] family = "LookupValue" -> Res("ok", <<OpSet(<<"LookupKey", key>>, value)>>)
      [] family = "LookupCounter" -> TranslateLookupCounter(key, value)
      [] family = "Directory" -> TranslateDirectory(key, value)
      [] family = "Queue" -> TranslateQueue(key, value)
      [] family = "Index" -> TranslateIndex(key)
      [] family = "Bitmap" -> TranslateBitmap(key, value)
      [] family = "Log" -> TranslateLog(collection, key, value)
      [] OTHER -> ResFailed

(***************************************************************************)
(* State                                                                   *)
(*   src     the path given to restore: a file, or a directory listing     *)
(*   proc    "init", "running", "returned" (restore returned), "exited"    *)
(*           (failed(..) ended the process), "panicked" (a panic unwound   *)
(*           out of restore)                                               *)
(*   tasks   one decode+replay unit per file: its reader, decode context   *)
(*           and batch                                                     *)
(*   joined  how many units restore has awaited                            *)
(*   writes  the batches the destination store has applied, in order       *)
(*   blobs   the puts the blob store has applied                           *)
(***************************************************************************)
\* The locals of restore_file (lines 79-85) for one file; path is the
\* entry of src the unit reads.  err, nkv, nctx and mixed are history: what
\* made the unit fail ("io", "format", "write", "put"), KeyValue records
\* translated, context records read, and whether a context record followed
\* a KeyValue record.
InitTask(path) ==
    [path |-> path, pos |-> 0, pc |-> "open",
     family |-> "None", account_id |-> U32_MAX, document_id |-> U32_MAX,
     collection |-> U8_MAX, batch |-> BatchNew,
     class |-> <<>>, ids |-> <<>>, err |-> "",
     nkv |-> 0, nctx |-> 0, mixed |-> FALSE]

\* Reseed without batch = BatchBuilder::new(): the written operations stay
\* in the batch.
ReseedNoClear(task) ==
    update_document(
        with_collection(with_account_id(task.batch, task.account_id), task.collection),
        task.document_id)

\* batch = BatchBuilder::new(); with_account_id; with_collection;
\* update_document (lines 326-330)
Reseed(task) ==
    update_document(
        with_collection(with_account_id(BatchNew, task.account_id), task.collection),
        task.document_id)

\* ReseedBitmap with the document id of the decode context put back as well.
ReseedBitmapWithDocument(task) ==
    update_document(
        with_collection(with_account_id(BatchNew, task.account_id), task.collection),
        task.document_id)

\* The re-seeding inside the Bitmap expansion (lines 300-303)
ReseedBitmap(task) ==
    with_collection(with_account_id(BatchNew, task.account_id), task.collection)

\* What one step of a unit does to the shared state: out.task is the unit
\* afterwards, out.write the batch handed to store.write (<<>>: none),
\* out.put the blob put, out.exit whether failed(..) ended the process.
Out(task, write, put, exit) ==
    [task |-> task, write |-> write, put |-> put, exit |-> exit]

Exit(task, why) == Out([task EXCEPT !.pc = "failed", !.err = why], <<>>, <<>>, TRUE)
Panic(task, why) == Out([task EXCEPT !.pc = "panicked", !.err = why], <<>>, <<>>, FALSE)

\* FlushCheck with > in place of >=.
FlushCheckAbove(task, wok) ==
    IF Len(task.batch) > FlushThreshold
    THEN IF wok
         THEN Out([task EXCEPT !.batch = Reseed(task)], <<task.batch>>, <<>>, FALSE)
         ELSE Exit(task, "write")
    ELSE Out(task, <<>>, <<>>, FALSE)

\* if batch.ops.len() >= 1000 { store.write(..).failed(..); re-seed }
\* (lines 321-331); wok says whether the store accepts the write.
FlushCheck(task, wok) ==
    IF Len(task.batch) >= FlushThreshold
    THEN IF wok
         THEN Out([task EXCEPT !.batch = Reseed(task)], <<task.batch>>, <<>>, FALSE)
         ELSE Exit(task, "write")
    ELSE Out(task, <<>>, <<>>, FALSE)

\* BitmapPairs with every membership set on the first document id.
BitmapPairsFirstId(ids, class, k) ==
    [i \in 1..(2 * k) |->
        IF i % 2 = 1 THEN OpDocumentId(ids[1]) ELSE OpBitmap(class)]

\* The operations the expansion pushes for ids[1..k] (lines 289-293)
BitmapPairs(ids, class, k) ==
    [i \in 1..(2 * k) |->
        IF i % 2 = 1 THEN OpDocumentId(ids[(i + 1) \div 2]) ELSE OpBitmap(class)]

\* IdsToFlush with one operation counted per id.
IdsToFlushOnePerId(len) ==
    IF len + 1 >= FlushThreshold THEN 1
    ELSE FlushThreshold - len

\* How many ids the loop pushes before its flush test first succeeds.
IdsToFlush(len) ==
    IF len + 2 >= FlushThreshold THEN 1
    ELSE (FlushThreshold - len + 1) \div 2

\* Expand with a refused write of the inner flush leaving a part of the batch
\* in the store: the operations it held before the expansion.
ExpandPartialWrite(task, wok) ==
    LET k == IdsToFlush(Len(task.batch))
    IN  IF k <= Len(task.ids)
        THEN LET full == task.batch \o BitmapPairs(task.ids, task.class, k)
                 rest == Drop(task.ids, k)
             IN  IF ~wok
                 THEN Out([task EXCEPT !.pc = "failed", !.err = "write"],
                          <<task.batch>>, <<>>, TRUE)
                 ELSE Out([task EXCEPT !.batch = ReseedBitmap(task),
                                       !.ids = rest,
                                       !.class = IF rest = <<>> THEN <<>> ELSE task.class,
                                       !.pc = IF rest = <<>> THEN "loop" ELSE "bitmap"],
                          <<full>>, <<>>, FALSE)
        ELSE FlushCheck([task EXCEPT
                            !.batch = task.batch
                                      \o BitmapPairs(task.ids, task.class, Len(task.ids)),
                            !.ids = <<>>, !.class = <<>>, !.pc = "loop"], wok)

\* for document_id in document_ids { .. } (lines 288-305), run up to its
\* next store.write, or to its end and then through the flush test that
\* follows the match.
Expand(task, wok) ==
    LET k == IdsToFlush(Len(task.batch))
    IN  IF k <= Len(task.ids)
        THEN LET full == task.batch \o BitmapPairs(task.ids, task.class, k)
                 rest == Drop(task.ids, k)
             IN  IF ~wok THEN Exit(task, "write")
                 ELSE Out([task EXCEPT !.batch = ReseedBitmap(task),
                                       !.ids = rest,
                                       !.class = IF rest = <<>> THEN <<>> ELSE task.class,
                                       !.pc = IF rest = <<>> THEN "loop" ELSE "bitmap"],
                          <<full>>, <<>>, FALSE)
        ELSE FlushCheck([task EXCEPT
                            !.batch = task.batch
                                      \o BitmapPairs(task.ids, task.class, Len(task.ids)),
                            !.ids = <<>>, !.class = <<>>, !.pc = "loop"], wok)

\* KeyValueStep with the outcome of the blob put ignored: the commit
\* operation is appended whether or not the put went through.
KeyValueStepPutIgnored(task, rec, wok, pok) ==
    LET r == Translate(task.family, task.account_id, task.document_id,
                       task.collection, rec.a, rec.b)
        t1 == [task EXCEPT !.pos = rec.pos, !.nkv = task.nkv + 1]
    IN  CASE r.status = "failed" -> Exit(task, "format")
          [] r.status = "panic" -> Panic(task, "format")
          [] r.status = "bitmap" -> Expand([t1 EXCEPT !.class = r.class, !.ids = r.ids], wok)
          [] OTHER ->
                LET t2 == [t1 EXCEPT !.batch = task.batch \o r.ops]
                    o == IF r.skip THEN Out(t2, <<>>, <<>>, FALSE)
                         ELSE FlushCheck(t2, wok)
                IN  [o EXCEPT !.put = IF pok THEN r.put ELSE <<>>]

\* Op::KeyValue (lines 102-318) and the flush test after it
KeyValueStep(task, rec, wok, pok) ==
    LET r == Translate(task.family, task.account_id, task.document_id,
                       task.collection, rec.a, rec.b)
        t1 == [task EXCEPT !.pos = rec.pos, !.nkv = task.nkv + 1]
    IN  CASE r.status = "failed" -> Exit(task, "format")
          [] r.status = "panic" -> Panic(task, "format")
          [] r.status = "bitmap" -> Expand([t1 EXCEPT !.class = r.class, !.ids = r.ids], wok)
          [] OTHER ->
                IF r.put # <<>> /\ ~pok THEN Panic(task, "put")
                ELSE LET t2 == [t1 EXCEPT !.batch = task.batch \o r.ops]
                         o == IF r.skip THEN Out(t2, <<>>, <<>>, FALSE)
                              ELSE FlushCheck(t2, wok)
                     IN  [o EXCEPT !.put = r.put]

\* One iteration of the while loop of restore_file (lines 87-332) on the
\* record rec.
RecordStep(task, rec, wok, pok) ==
    LET ctx == [task EXCEPT !.pos = rec.pos, !.nctx = task.nctx + 1,
                            !.mixed = task.mixed \/ task.nkv > 0]
    IN  CASE rec.kind = "Failed" -> Exit(task, "format")
          [] rec.kind = "Family" ->
                FlushCheck([task EXCEPT !.pos = rec.pos, !.family = rec.a[1]], wok)
          [] rec.kind = "AccountId" ->
                FlushCheck([ctx EXCEPT !.account_id = rec.a,
                                       !.batch = with_account_id(task.batch, rec.a)], wok)
          [] rec.kind = "Collection" ->
                FlushCheck([ctx EXCEPT !.collection = rec.a[1],
                                       !.batch = with_collection(task.batch, rec.a[1])], wok)
          [] rec.kind = "DocumentId" ->
                FlushCheck([ctx EXCEPT !.document_id = rec.a,
                                       !.batch = update_document(task.batch, rec.a)], wok)
          [] OTHER -> KeyValueStep(task, rec, wok, pok)

\* FinalFlush with the test of !batch.is_empty() turned around.
FinalFlushEmptyOnly(task, wok) ==
    IF is_empty(task.batch)
    THEN IF wok THEN Out([task EXCEPT !.pc = "done"], <<task.batch>>, <<>>, FALSE)
         ELSE Exit(task, "write")
    ELSE Out([task EXCEPT !.pc = "done"], <<>>, <<>>, FALSE)

\* The residual flush after the loop (lines 334-339)
FinalFlush(task, wok) ==
    IF ~is_empty(task.batch)
    THEN IF wok THEN Out([task EXCEPT !.pc = "done"], <<task.batch>>, <<>>, FALSE)
         ELSE Exit(task, "write")
    ELSE Out([task EXCEPT !.pc = "done"], <<>>, <<>>, FALSE)

\* Apply with one decode context for all units: the step of unit t sets the
\* context of every unit.
ApplySharedContext(t, o) ==
    /\ tasks' = [u \in DOMAIN tasks |->
                    IF u = t THEN o.task
                    ELSE [tasks[u] EXCEPT !.family = o.task.family,
                                          !.account_id = o.task.account_id,
                                          !.collection = o.task.collection,
                                          !.document_id = o.task.document_id]]
    /\ writes' = IF o.write = <<>> THEN writes
                 ELSE Append(writes, [task |-> t, ops |-> o.write[1]])
    /\ blobs' = IF o.put = <<>> THEN blobs
                ELSE blobs \cup {[task |-> t, key |-> o.put[1].key, value |-> o.put[1].value]}
    /\ proc' = IF o.exit THEN "exited" ELSE proc
    /\ UNCHANGED <<src, joined>>

\* A unit's step applied to the shared state.
Apply(t, o) ==
    /\ tasks' = [tasks EXCEPT ![t] = o.task]
    /\ writes' = IF o.write = <<>> THEN writes
                 ELSE Append(writes, [task |-> t, ops |-> o.write[1]])
    /\ blobs' = IF o.put = <<>> THEN blobs
                ELSE blobs \cup {[task |-> t, key |-> o.put[1].key, value |-> o.put[1].value]}
    /\ proc' = IF o.exit THEN "exited" ELSE proc
    /\ UNCHANGED <<src, joined>>

(***************************************************************************)
(* Snapshot files: the encoding of section 4.1 that OpReader decodes.      *)
(***************************************************************************)
Header == <<MAGIC_MARKER, FILE_VERSION>>
Sized(bytes) == <<0, 0, Len(bytes) \div 256, Len(bytes) % 256>> \o bytes
RFamily(f) == <<0, f>>
RKeyValue(key, value) == <<1>> \o Sized(key) \o Sized(value)
RKeyOnly(key) == <<2>> \o Sized(key)
RAccountId(a) == <<3>> \o a
RCollection(c) == <<4, c>>
RDocumentId(d) == <<5>> \o d

\* The u32 of a small number, and a serialized bitmap of the ids 1..n.
U32Of(i) == <<0, 0, i \div 256, i % 256>>
BitmapOfFirst(n) == [j \in 1..(4 * n) |-> U32Of(((j - 1) \div 4) + 1)[((j - 1) % 4) + 1]]

\* The concatenation of the files of a sequence of byte strings.
RECURSIVE Concat(_)
Concat(ss) == IF ss = <<>> THEN <<>> ELSE ss[1] \o Concat(Tail(ss))

\* All sequences over S of length 0..n.
SeqsUpTo(S, n) == UNION {[1..k -> S] : k \in 0..n}

(***************************************************************************)
(* Bounds of the model                                                     *)
(***************************************************************************)
\* Records after the header in a file of context and data records.
MaxRecs == 3
\* KeyValue records after the Family record in a file of one family.
MaxKV == 2
\* Entries of a directory.
MaxFiles == 2

(***************************************************************************)
(* The inputs: values, records, files and directories                      *)
(***************************************************************************)
A1 == <<0, 0, 0, 1>>
A2 == <<0, 0, 0, 2>>
D1 == <<0, 0, 0, 7>>
V1 == <<9>>
V2 == <<8, 8>>
V8 == <<5, 0, 0, 0, 0, 0, 0, 0>>
W8 == <<250, 255, 255, 255, 255, 255, 255, 255>>
Q8 == <<0, 0, 0, 0, 0, 0, 1, 2>>
Hash32 == [i \in 1..BLOB_HASH_LEN |-> i]
Ids3 == <<0, 0, 0, 3, 0, 0, 0, 7, 0, 0, 0, 42>>

\* Context prefixes: none, account + Mailbox + document, account + collection.
NoContext == <<>>
FullContext == RAccountId(A1) \o RCollection(CollectionMailbox) \o RDocumentId(D1)
AccountContext == RAccountId(A2) \o RCollection(0)
Contexts == {NoContext, FullContext, AccountContext}

\* Files of context and data records in any order.
MixMenu ==
    {RAccountId(A1), RAccountId(A2), RCollection(CollectionMailbox), RCollection(0),
     RDocumentId(D1), RFamily(0), RFamily(4), RKeyValue(<<PropertyEmailIds>>, V8)}
MixFiles == {Header \o Concat(rs) : rs \in SeqsUpTo(MixMenu, MaxRecs)}

\* KeyValue records to read under each family byte (12 is no family).
FamilyMenu(f) ==
    CASE f = 0 -> {RKeyValue(<<PropertyEmailIds>>, V8), RKeyValue(<<PropertyEmailIds>>, V1),
                   RKeyValue(<<2>>, V1), RKeyOnly(<<>>)}
      [] f = 1 -> {RKeyValue(<<1, 2>>, V1), RKeyOnly(<<3>>)}
      [] f = 2 -> {RKeyValue(A1, V1), RKeyValue(<<1>>, V1)}
      [] f = 3 -> {RKeyValue(Hash32, V2), RKeyOnly(Hash32), RKeyValue(<<1, 2>>, V1)}
      [] f = 4 -> {RKeyValue(<<1>>, V1), RKeyValue(<<1>>, V2)}
      [] f = 5 -> {RKeyValue(<<1>>, V1)}
      [] f = 6 -> {RKeyValue(<<1>>, V8), RKeyValue(<<1>>, V1)}
      [] f = 7 -> {RKeyValue(<<t, 5>>, V8) : t \in 0..7}
                  \cup {RKeyValue(<<5>> \o A1 \o A2, V1), RKeyValue(<<6>> \o A1 \o A2, V1),
                        RKeyValue(<<4, 5>>, V1), RKeyValue(<<2>>, V1), RKeyOnly(<<>>)}
      [] f = 8 -> {RKeyValue(<<0>> \o Q8, V1), RKeyValue(<<1>> \o Q8 \o Q8, V1),
                   RKeyValue(<<2>> \o Q8, V1), RKeyValue(<<0, 1>>, V1)}
      [] f = 9 -> {RKeyOnly(<<3, 1, 2>>), RKeyOnly(<<>>)}
      [] f = 10 -> {RKeyValue(<<0>>, Ids3), RKeyValue(<<1, 6>> \o A1, Ids3),
                    RKeyValue(<<2, 6, 65>>, Ids3), RKeyValue(<<3, 6, 1>>, Ids3),
                    RKeyValue(<<4, 6, 2>> \o Q8, Ids3), RKeyValue(<<5>>, Ids3),
                    RKeyValue(<<1>>, Ids3), RKeyOnly(<<0>>), RKeyValue(<<0>>, V1),
                    RKeyValue(<<5>>, V1)}
      [] f = 11 -> {RKeyValue(Q8, V1), RKeyValue(<<1>>, V1)}
      [] OTHER -> {RKeyValue(<<1>>, V1)}

FamilyFiles ==
    UNION {{Header \o c \o RFamily(f) \o Concat(rs) : rs \in SeqsUpTo(FamilyMenu(f), MaxKV)} :
           c \in Contexts, f \in 0..12}

\* A well-formed file and every prefix of it.
WholeFile ==
    Header \o FullContext \o RFamily(4) \o RKeyValue(<<1>>, V2) \o RKeyOnly(<<2>>)
CutFiles == {SubSeq(WholeFile, 1, n) : n \in 0..Len(WholeFile)}

\* Wrong headers, unknown record tags, a length prefix beyond the file, a
\* KeyOnly record ahead of the first Family record.
Body == RFamily(4) \o RKeyValue(<<1>>, V1)
OddFiles ==
    {<<MAGIC_MARKER, FILE_VERSION + 1>> \o Body, <<MAGIC_MARKER + 1, FILE_VERSION>> \o Body,
     <<FILE_VERSION, MAGIC_MARKER>> \o Body, <<MAGIC_MARKER, 0>> \o Body,
     Header \o <<6>> \o Body, Header \o Body \o <<255, 0>>, Header \o Body \o <<6>>,
     Header \o RFamily(4) \o <<1, 1, 0, 0, 0, 7>>,
     Header \o RFamily(4) \o <<2, 0, 0, 1, 0, 7>>,
     Header \o RKeyOnly(<<1>>) \o Body, Header \o FullContext \o RKeyOnly(<<1>>) \o Body}

\* One Bitmap record whose expansion crosses the flush threshold, then a
\* record of another family.
BitmapFile(c, n) ==
    Header \o c \o RFamily(10) \o RKeyValue(<<0>>, BitmapOfFirst(n))
           \o RFamily(4) \o RKeyValue(<<1>>, V1)
BigBitmapFiles == {BitmapFile(c, n) : c \in {NoContext, FullContext}, n \in {499, 500, 501}}

\* A Bitmap record under a full context, then an Index record, a DocumentId
\* record and another Index record; with 499 ids the expansion ends on its
\* inner flush.
AfterBitmapFile(n) ==
    Header \o FullContext \o RFamily(10) \o RKeyValue(<<0>>, BitmapOfFirst(n))
           \o RFamily(9) \o RKeyOnly(<<3, 1, 2>>) \o RDocumentId(D1) \o RKeyOnly(<<3, 1, 2>>)
AfterBitmapFiles == {AfterBitmapFile(n) : n \in {3, 499}}

Files ==
    MixFiles \cup FamilyFiles \cup CutFiles \cup OddFiles \cup BigBitmapFiles
        \cup AfterBitmapFiles

\* An entry of a directory listing that is a regular file holding f.
FileEntry(f) == [is_file |-> TRUE, name |-> "", file |-> f]

(***************************************************************************)
(* Long files: enough records to cross the flush threshold more than once. *)
(* They are kept by name on LongDisk, outside the state.                   *)
(***************************************************************************)
\* The i-th Config record of a long file, and n of them in a row.
ConfigRecord(i) == RKeyValue(<<i \div 256, i % 256>>, <<>>)
ConfigRecordLen == Len(ConfigRecord(1))
ManyRecords(n) ==
    [j \in 1..(ConfigRecordLen * n) |->
        ConfigRecord(((j - 1) \div ConfigRecordLen) + 1)[((j - 1) % ConfigRecordLen) + 1]]

LongFile(c, n) == Header \o c \o RFamily(4) \o ManyRecords(n)

\* A context record in the middle of a long file.
SwitchFile(c, n) ==
    Header \o c \o RFamily(4) \o ManyRecords(n) \o RAccountId(A2) \o RDocumentId(D1)
           \o ManyRecords(2)

\* Directory UsedQuota records read into a batch one short of the
\* threshold, then a record of another family.
QuotaFile(n) ==
    Header \o RFamily(4) \o ManyRecords(n) \o RFamily(7)
           \o RKeyValue(<<4, 5>>, V8) \o RKeyValue(<<4, 5>>, W8)
           \o RFamily(4) \o RKeyValue(<<1>>, V1)

LongDisk ==
    [plain1000 |-> LongFile(NoContext, 1000),
     plain2001 |-> LongFile(NoContext, 2001),
     context1000 |-> LongFile(FullContext, 1000),
     context2001 |-> LongFile(FullContext, 2001),
     switch996 |-> SwitchFile(NoContext, 996),
     switch999 |-> SwitchFile(NoContext, 999),
     contextswitch996 |-> SwitchFile(FullContext, 996),
     contextswitch999 |-> SwitchFile(FullContext, 999),
     bitmap500 |-> BitmapFile(FullContext, 500),
     quota999 |-> QuotaFile(999),
     bitmap1000 |-> BitmapFile(NoContext, 1000)]

NamedEntry(n) == [is_file |-> TRUE, name |-> n, file |-> <<>>]

LongSources ==
    {[dir |-> FALSE, entries |-> <<NamedEntry(n)>>] : n \in DOMAIN LongDisk}
    \cup {[dir |-> FALSE, entries |-> <<FileEntry(f)>>] : f \in BigBitmapFiles}

\* The entries of a directory: regular files, and one entry that is none.
DirMenu ==
    {FileEntry(Header \o Body),
     FileEntry(Header \o RFamily(4) \o RKeyValue(<<1>>, V2)),
     FileEntry(Header \o RFamily(4) \o RKeyValue(<<2>>, V2)),
     FileEntry(Header \o FullContext \o RFamily(6) \o RKeyValue(<<1>>, V8)),
     FileEntry(Header \o FullContext \o RFamily(6) \o RKeyValue(<<1>>, W8)),
     FileEntry(Header \o RFamily(6) \o RKeyValue(<<1>>, V1)),
     FileEntry(Header \o Body \o <<1, 0, 0>>),
     FileEntry(<<MAGIC_MARKER, 0>> \o Body),
     FileEntry(Header \o RAccountId(A1) \o RFamily(3) \o RKeyValue(Hash32, V2)),
     [is_file |-> FALSE, name |-> "", file |-> <<>>]}

\* Directories with a file that takes more than one write.
BigDirSources ==
    {[dir |-> TRUE, entries |-> es] :
        es \in {<<NamedEntry("bitmap500"), FileEntry(Header \o Body)>>,
                <<FileEntry(Header \o Body), NamedEntry("bitmap500")>>}}

\* A file whose Bitmap expansion writes twice.
TwoFlushSources == {[dir |-> FALSE, entries |-> <<NamedEntry("bitmap1000")>>]}

SingleSources ==
    {[dir |-> FALSE, entries |-> <<FileEntry(f)>>] : f \in Files} \cup TwoFlushSources
DirSources == {[dir |-> TRUE, entries |-> es] : es \in SeqsUpTo(DirMenu, MaxFiles)}
Sources == SingleSources \cup DirSources \cup BigDirSources

(***************************************************************************)
(* Actions                                                                 *)
(***************************************************************************)
InitWith(S) ==
    /\ src \in S
    /\ proc = "init"
    /\ tasks = <<>>
    /\ joined = 0
    /\ writes = <<>>
    /\ blobs = {}

Init == InitWith(Sources)

\* The content of the file a unit reads: the bytes of its entry, or, for
\* an entry that only names a file, the bytes LongDisk holds under the name.
FileOf(task) ==
    LET e == src.entries[task.path]
    IN  IF e.name = "" THEN e.file ELSE LongDisk[e.name]

\* The paths of a directory listing that are regular files (line 60), in
\* listing order.
RegularFiles(entries) ==
    LET IsFile(i) == entries[i].is_file
    IN  SelectSeq([i \in 1..Len(entries) |-> i], IsFile)

\* Core::restore up to its first await (lines 52-67, 73): one unit per
\* regular file of the directory, or one unit for the file itself.
Restore ==
    /\ proc = "init"
    /\ proc' = "running"
    /\ tasks' = LET ps == IF src.dir THEN RegularFiles(src.entries)
                          ELSE <<1>>
                IN  [i \in 1..Len(ps) |-> InitTask(ps[i])]
    /\ UNCHANGED <<src, joined, writes, blobs>>

\* OpReader::new (lines 347-369); io says whether the file opens and reads.
Open(t) ==
    /\ proc = "running"
    /\ tasks[t].pc = "open"
    /\ \E io \in BOOLEAN :
          IF io /\ OpReaderNew(FileOf(tasks[t]))
          THEN Apply(t, Out([tasks[t] EXCEPT !.pos = 2, !.pc = "loop"], <<>>, <<>>, FALSE))
          ELSE Apply(t, Exit(tasks[t], IF io THEN "format" ELSE "io"))

\* One iteration of the while loop (lines 87-332) on the next record.
NextRecord(t) ==
    /\ proc = "running"
    /\ tasks[t].pc = "loop"
    /\ LET rec == OpReaderNext(FileOf(tasks[t]), tasks[t].pos)
       IN  /\ rec.kind # "None"
           /\ \E wok \in BOOLEAN, pok \in BOOLEAN :
                 Apply(t, RecordStep(tasks[t], rec, wok, pok))

\* A read error other than the end of the file (line 391).
ReadError(t) ==
    /\ proc = "running"
    /\ tasks[t].pc = "loop"
    /\ Apply(t, Exit(tasks[t], "io"))

\* The rest of a Bitmap expansion after one of its writes (lines 288-305).
BitmapExpand(t) ==
    /\ proc = "running"
    /\ tasks[t].pc = "bitmap"
    /\ \E wok \in BOOLEAN : Apply(t, Expand(tasks[t], wok))

\* reader.next() returns None: the loop ends (lines 87, 334-339).
EndOfStream(t) ==
    /\ proc = "running"
    /\ tasks[t].pc = "loop"
    /\ OpReaderNext(FileOf(tasks[t]), tasks[t].pos).kind = "None"
    /\ \E wok \in BOOLEAN : Apply(t, FinalFlush(tasks[t], wok))

\* AwaitOutcome with a panic of the unit taken for its completion.
AwaitOutcomeSwallow(task, dir) == "joined"

\* What awaiting unit t yields: "joined", or how the process ends.  A panic
\* of a spawned unit is a JoinError, which failed(..) turns into an exit
\* (line 70); a panic of the single file's unit unwinds out of restore
\* (line 73).
AwaitOutcome(task, dir) ==
    IF task.pc = "done" THEN "joined"
    ELSE IF dir THEN "exited" ELSE "panicked"

\* Await without waiting: the unit counts as joined wherever it stands.
AwaitEarly(t) ==
    /\ proc = "running"
    /\ joined = t - 1
    /\ joined' = t
    /\ UNCHANGED <<src, proc, tasks, writes, blobs>>

\* Await out of order: a unit is awaited as soon as it has ended, whether or
\* not the units listed before it have been awaited.
AwaitAnyOrder(t) ==
    /\ proc = "running"
    /\ joined < t
    /\ tasks[t].pc \in {"done", "panicked"}
    /\ LET o == AwaitOutcome(tasks[t], src.dir)
       IN  /\ joined' = IF o = "joined" THEN t ELSE joined
           /\ proc' = IF o = "joined" THEN proc ELSE o
    /\ UNCHANGED <<src, tasks, writes, blobs>>

\* task.await for the units in order (lines 69-71), restore_file(..).await
\* for a single file (line 73).
Await(t) ==
    /\ proc = "running"
    /\ joined = t - 1
    /\ tasks[t].pc \in {"done", "panicked"}
    /\ LET o == AwaitOutcome(tasks[t], src.dir)
       IN  /\ joined' = IF o = "joined" THEN t ELSE joined
           /\ proc' = IF o = "joined" THEN proc ELSE o
    /\ UNCHANGED <<src, tasks, writes, blobs>>

\* restore returns (line 75).
Return ==
    /\ proc = "running"
    /\ joined = Len(tasks)
    /\ proc' = "returned"
    /\ UNCHANGED <<src, tasks, joined, writes, blobs>>

Next ==
    \/ Restore
    \/ \E t \in DOMAIN tasks : Open(t)
    \/ \E t \in DOMAIN tasks : NextRecord(t)
    \/ \E t \in DOMAIN tasks : ReadError(t)
    \/ \E t \in DOMAIN tasks : BitmapExpand(t)
    \/ \E t \in DOMAIN tasks : EndOfStream(t)
    \/ \E t \in DOMAIN tasks : Await(t)
    \/ Return

Spec == Init /\ [][Next]_vars

SpecFlush == InitWith(LongSources) /\ [][Next]_vars

\* Every file and directory of Spec and every long file of SpecFlush.
SpecAll == InitWith(Sources \cup LongSources) /\ [][Next]_vars

(***************************************************************************)
(* The destination store: what the batches it applied add up to.  A batch  *)
(* is applied whole, its operations in order; an AccountId, Collection or  *)
(* DocumentId operation moves the cursor the later operations of the batch *)
(* are applied under.  The content is a function from keys to entries      *)
(* [kind, val]: "set" the last value written, "add" the sum of the deltas. *)
(***************************************************************************)
Cursor0 == [account_id |-> U32_MAX, collection |-> U8_MAX, document_id |-> U32_MAX]

MoveCursor(c, o) ==
    CASE o.op = "AccountId" -> [c EXCEPT !.account_id = o.arg]
      [] o.op = "Collection" -> [c EXCEPT !.collection = o.arg[1]]
      [] o.op = "DocumentId" -> [c EXCEPT !.document_id = o.arg]
      [] OTHER -> c

\* The cursor after ops[lo..hi], from cursor c.  (The test of cm has the
\* cursor of the left half computed before the right half is entered.)
RECURSIVE CursorAfter(_, _, _, _)
CursorAfter(ops, lo, hi, c) ==
    IF lo > hi THEN c
    ELSE IF lo = hi THEN MoveCursor(c, ops[lo])
    ELSE LET mid == (lo + hi) \div 2
             cm == CursorAfter(ops, lo, mid, c)
         IN  IF cm.collection >= 0 THEN CursorAfter(ops, mid + 1, hi, cm) ELSE cm

\* The key an operation writes under cursor c: global classes have a key of
\* their own, the change log is kept per account, everything else per
\* account, collection and document.
KeyOf(c, o) ==
    IF o.class[1] \in {"Config", "LookupKey", "LookupCounter", "Directory", "Queue"}
       \/ (o.class[1] = "Blob" /\ o.class[2] = "Commit")
    THEN <<o.class>>
    ELSE IF o.class[1] = "Log" THEN <<c.account_id, o.class>>
    ELSE <<c.account_id, c.collection, c.document_id, o.class>>

\* The sum of two i64 given as 8 little-endian bytes, modulo 2^64.
RECURSIVE AddBytes(_, _, _, _)
AddBytes(a, b, i, carry) ==
    IF i > U64_LEN THEN <<>>
    ELSE LET sum == a[i] + b[i] + carry
         IN  <<sum % 256>> \o AddBytes(a, b, i + 1, sum \div 256)
AddI64(a, b) == AddBytes(a, b, 1, 0)

\* The content b applied after the content a.
MergeContent(a, b) ==
    [k \in DOMAIN b |->
        IF k \notin DOMAIN a \/ b[k].kind = "set" THEN b[k]
        ELSE [kind |-> a[k].kind, val |-> AddI64(a[k].val, b[k].val)]] @@ a

\* The content ops[lo..hi] write from cursor c.
RECURSIVE ContentOf(_, _, _, _)
ContentOf(ops, lo, hi, c) ==
    IF lo > hi THEN <<>>
    ELSE IF lo = hi
    THEN IF IsContextOp(ops[lo]) THEN <<>>
         ELSE KeyOf(c, ops[lo]) :>
                 [kind |-> IF ops[lo].op = "Add" THEN "add" ELSE "set", val |-> ops[lo].arg]
    ELSE LET mid == (lo + hi) \div 2
             cm == CursorAfter(ops, lo, mid, c)
         IN  IF cm.collection >= 0
             THEN MergeContent(ContentOf(ops, lo, mid, c), ContentOf(ops, mid + 1, hi, cm))
             ELSE <<>>

\* Store::write of one batch, and the content after a sequence of batches.
BatchContent(ops) == ContentOf(ops, 1, Len(ops), Cursor0)

RECURSIVE StoreAfter(_, _, _)
StoreAfter(ws, lo, hi) ==
    IF lo > hi THEN <<>>
    ELSE IF lo = hi THEN BatchContent(ws[lo])
    ELSE LET mid == (lo + hi) \div 2
         IN  MergeContent(StoreAfter(ws, lo, mid), StoreAfter(ws, mid + 1, hi))

StoreContent(ws) == StoreAfter(ws, 1, Len(ws))

(***************************************************************************)
(* Properties                                                              *)
(***************************************************************************)
Last(s) == s[Len(s)]

\* The batches unit t has written, in order.
WritesOf(t) ==
    LET ByT(w) == w.task = t
    IN  SelectSeq(writes, ByT)

\* The operations of a batch that come from KeyValue records.
RecordOps(ops) == Cardinality({i \in 1..Len(ops) : ~IsContextOp(ops[i])})

\* Unit t made the step from the current state to the next.
Stepped(t) == t \in DOMAIN tasks' /\ tasks'[t] # tasks[t]

\* Unit t is about to decode a KeyValue record, and the step decodes it and
\* goes on to the next record.
KeyValueDone(t) ==
    /\ proc = "running"
    /\ tasks[t].pc = "loop"
    /\ OpReaderNext(FileOf(tasks[t]), tasks[t].pos).kind = "KeyValue"
    /\ Stepped(t)
    /\ tasks'[t].pos = OpReaderNext(FileOf(tasks[t]), tasks[t].pos).pos

\* The operation a step appended last, wherever the step left it: in the
\* batch, or in the batch it wrote.
NewOp(t) ==
    IF Len(writes') > Len(writes) THEN Last(Last(writes').ops)
    ELSE Last(tasks'[t].batch)

\* C1: a unit whose file has a first byte other than the magic marker, or
\* a second byte other than the file version, decodes no record, builds no
\* batch, and causes no store write and no blob put.
C1_HeaderValidation ==
    \A t \in DOMAIN tasks :
        LET f == FileOf(tasks[t])
        IN  ((Len(f) >= 1 /\ f[1] # MAGIC_MARKER) \/ (Len(f) >= 2 /\ f[2] # FILE_VERSION))
            => /\ tasks[t].pos = 0
               /\ tasks[t].pc \in {"open", "failed"}
               /\ tasks[t].batch = <<>>
               /\ \A i \in 1..Len(writes) : writes[i].task # t
               /\ \A b \in blobs : b.task # t

\* A file with the right magic marker and a wrong version, followed by
\* well-formed records, has been refused.
C1_Witness ==
    \E t \in DOMAIN tasks :
        /\ FileOf(tasks[t]) = <<MAGIC_MARKER, FILE_VERSION + 1>> \o Body
        /\ tasks[t].pc = "failed"
        /\ proc = "exited"

\* Unit t has finished a file of KeyValue records that each became one
\* operation, none of them a Bitmap record, all read after the last context
\* record.
OneContextFileDone(t) ==
    /\ tasks[t].pc = "done"
    /\ tasks[t].nkv > 0
    /\ ~tasks[t].mixed
    /\ LET W == WritesOf(t)
       IN  /\ \A i \in 1..Len(W) : \A j \in 1..Len(W[i].ops) : W[i].ops[j].op # "Bitmap"
           /\ tasks[t].nkv = RecordOps(Concat([i \in 1..Len(W) |-> W[i].ops]))

\* No operation unit t wrote is a Directory UsedQuota delta.
NoUsedQuota(t) ==
    LET W == WritesOf(t)
    IN  \A i \in 1..Len(W) : \A j \in 1..Len(W[i].ops) :
            ~(W[i].ops[j].op = "Add" /\ W[i].ops[j].class[1] = "Directory")

CeilDiv(n, d) == (n + d - 1) \div d

\* C2 as stated: a file of N one-operation KeyValue records under one
\* context is written in ceil(N/1000) batches, each but the last carrying
\* 1000 of the records' operations and the last the remainder.
C2_FlushBoundaryAsStated ==
    \A t \in DOMAIN tasks :
        OneContextFileDone(t) =>
            LET W == WritesOf(t)
                N == tasks[t].nkv
            IN  /\ Len(W) = CeilDiv(N, FlushThreshold)
                /\ \A i \in 1..Len(W) :
                      RecordOps(W[i].ops) =
                          IF i < Len(W) THEN FlushThreshold
                          ELSE N - FlushThreshold * (Len(W) - 1)

\* The number of writes of a file of N one-operation records read after k
\* context records: the first batch is full after 1000 - k records, every
\* later one, which starts with the 3 re-seeded context operations, after
\* 997 more.
WritesFor(N, k) ==
    IF N <= FlushThreshold - k THEN 1
    ELSE 1 + CeilDiv(N - (FlushThreshold - k), FlushThreshold - 3)

\* C2, amended: the threshold counts every operation of the batch, the
\* context operations included.  Every write but the last carries exactly
\* 1000 operations: 1000 - k record operations in the first batch (k the
\* number of context records of the file), 997 in each later one behind the
\* 3 re-seeded context operations; the last write carries the remaining
\* record operations.
C2_FlushBoundary ==
    \A t \in DOMAIN tasks :
        (OneContextFileDone(t) /\ NoUsedQuota(t)) =>
            LET W == WritesOf(t)
                N == tasks[t].nkv
                k == tasks[t].nctx
                Full(i) == IF i = 1 THEN FlushThreshold - k ELSE FlushThreshold - 3
            IN  /\ Len(W) = WritesFor(N, k)
                /\ \A i \in 1..(Len(W) - 1) :
                      /\ Len(W[i].ops) = FlushThreshold
                      /\ RecordOps(W[i].ops) = Full(i)
                /\ RecordOps(Last(W).ops) =
                      N - (IF Len(W) = 1 THEN 0
                           ELSE (FlushThreshold - k) + (FlushThreshold - 3) * (Len(W) - 2))

\* 2001 records under no context record: 3 writes carrying 1000, 997 and 4
\* record operations.
C2_Witness ==
    \E t \in DOMAIN tasks :
        /\ tasks[t].pc = "done"
        /\ tasks[t].nkv = 2001
        /\ tasks[t].nctx = 0
        /\ Len(WritesOf(t)) = 3
        /\ RecordOps(WritesOf(t)[1].ops) = 1000
        /\ RecordOps(WritesOf(t)[2].ops) = 997
        /\ RecordOps(WritesOf(t)[3].ops) = 4

\* C3: whenever a step of a unit writes a batch and leaves the unit ready
\* to decode the next record, the fresh batch holds the account id, the
\* collection and the document id of the decode context.
C3_ContextSurvivesFlush ==
    [][\A t \in DOMAIN tasks :
          (/\ Stepped(t)
           /\ Len(writes') > Len(writes)
           /\ tasks'[t].pc = "loop")
          => tasks'[t].batch = <<OpAccountId(tasks'[t].account_id),
                                  OpCollection(tasks'[t].collection),
                                  OpDocumentId(tasks'[t].document_id)>>]_vars

\* The Bitmap records of a file from pos on, as the pairs <<id, class>> their
\* values and keys decode to, in file order; family is the family in force.
RECURSIVE BitmapsOf(_, _, _)
BitmapsOf(file, pos, family) ==
    LET rec == OpReaderNext(file, pos)
    IN  CASE rec.kind \in {"None", "Failed"} -> <<>>
          [] rec.kind = "Family" -> BitmapsOf(file, rec.pos, rec.a[1])
          [] rec.kind = "KeyValue" /\ family = "Bitmap" ->
                LET D == deserialize_bitmap(rec.b)
                    class == BitmapClassOf(rec.a)
                IN  IF D = None \/ class[1] # "ok" THEN <<>>
                    ELSE [i \in 1..Len(D[2]) |-> <<D[2][i], class[2]>>]
                         \o BitmapsOf(file, rec.pos, family)
          [] OTHER -> BitmapsOf(file, rec.pos, family)

\* The membership operations among ops, each with the operation before it.
MembershipsOf(ops) ==
    LET IsBitmap(i) == ops[i].op = "Bitmap"
        at == SelectSeq([i \in 1..Len(ops) |-> i], IsBitmap)
    IN  [n \in 1..Len(at) |->
            [before |-> IF at[n] = 1 THEN OpCollection(0) ELSE ops[at[n] - 1],
             class |-> ops[at[n]].class, set |-> ops[at[n]].arg]]

\* C4: when a unit is done, the membership operations it wrote are, in
\* order, one per document id of each Bitmap record of its file: each sets
\* (set = true) the record's bitmap class and directly follows the
\* operation that selects that document id.
C4_BitmapExpansion ==
    \A t \in DOMAIN tasks :
        tasks[t].pc = "done" =>
            LET W == WritesOf(t)
                got == MembershipsOf(Concat([i \in 1..Len(W) |-> W[i].ops]))
                want == BitmapsOf(FileOf(tasks[t]), 2, "None")
            IN  /\ Len(got) = Len(want)
                /\ \A n \in 1..Len(got) :
                      /\ got[n].before = OpDocumentId(want[n][1])
                      /\ got[n].class = want[n][2]
                      /\ got[n].set = <<1>>

\* A file whose one Bitmap record holds {3, 7, 42} is done with exactly 3
\* membership operations written, on the documents 3, 7 and 42.
C4_Witness ==
    \E t \in DOMAIN tasks :
        /\ tasks[t].pc = "done"
        /\ FileOf(tasks[t]) = Header \o RFamily(10) \o RKeyValue(<<0>>, Ids3)
        /\ Len(WritesOf(t)) = 1
        /\ WritesOf(t)[1].ops =
              <<OpDocumentId(<<0, 0, 0, 3>>), OpBitmap(<<"DocumentIds">>),
                OpDocumentId(<<0, 0, 0, 7>>), OpBitmap(<<"DocumentIds">>),
                OpDocumentId(<<0, 0, 0, 42>>), OpBitmap(<<"DocumentIds">>)>>

\* Unit t is about to decode a KeyValue record of the family with a key of
\* at least n bytes, and the step decodes it.
FamilyRecordDone(t, family, n) ==
    /\ KeyValueDone(t)
    /\ tasks[t].family = family
    /\ Len(OpReaderNext(FileOf(tasks[t]), tasks[t].pos).a) >= n

\* C5: a Blob record decoded while account id and document id are both set
\* appends a link operation for the key's hash and puts nothing into the
\* blob store, whatever value it carries; decoded while either is unset it
\* puts the value under the key and appends a commit operation.
C5_BlobLinkOrCommit ==
    [][\A t \in DOMAIN tasks :
          FamilyRecordDone(t, "Blob", BLOB_HASH_LEN) =>
              LET rec == OpReaderNext(FileOf(tasks[t]), tasks[t].pos)
              IN  IF tasks[t].account_id # U32_MAX /\ tasks[t].document_id # U32_MAX
                  THEN /\ blobs' = blobs
                       /\ NewOp(t) = OpSet(<<"Blob", "Link", rec.a>>, <<>>)
                  ELSE /\ blobs' = blobs \cup {[task |-> t, key |-> rec.a, value |-> rec.b]}
                       /\ NewOp(t) = OpSet(<<"Blob", "Commit", rec.a>>, <<>>)]_vars

\* A Blob record that carries a value was read under account and document:
\* a link operation is written and the blob store is empty.
C5_Witness ==
    \E t \in DOMAIN tasks :
        /\ tasks[t].pc = "done"
        /\ FileOf(tasks[t]) = Header \o FullContext \o RFamily(3) \o RKeyValue(Hash32, V2)
        /\ Last(Last(writes).ops) = OpSet(<<"Blob", "Link", Hash32>>, <<>>)
        /\ blobs = {}

\* C6: a Directory record whose key starts with 4 appends an additive
\* operation on UsedQuota carrying the record's value as its delta, also as
\* the first record of the file; one whose key starts with 0, 1, 2, 3, 5 or
\* 6 appends an overwrite with the record's value.
C6_DirectoryUsedQuota ==
    [][\A t \in DOMAIN tasks :
          FamilyRecordDone(t, "Directory", 1) =>
              LET rec == OpReaderNext(FileOf(tasks[t]), tasks[t].pos)
              IN  /\ NewOp(t).arg = rec.b
                  /\ NewOp(t).class[1] = "Directory"
                  /\ IF rec.a[1] = 4
                     THEN NewOp(t).op = "Add" /\ NewOp(t).class[2] = "UsedQuota"
                     ELSE NewOp(t).op = "Set" /\ NewOp(t).class[2] # "UsedQuota"]_vars

\* A UsedQuota record is the first record of its file and its delta sits
\* in the batch as an additive operation.
C6_Witness ==
    \E t \in DOMAIN tasks :
        /\ tasks[t].pc = "loop"
        /\ tasks[t].nkv = 1
        /\ tasks[t].nctx = 0
        /\ tasks[t].batch = <<OpAdd(<<"Directory", "UsedQuota", <<5>>>>, V8)>>

(***************************************************************************)
(* C7: directory restore, every unit succeeding                            *)
(***************************************************************************)
\* The operations of the batches ws, without the units that wrote them.
Batches(ws) == [i \in DOMAIN ws |-> ws[i].ops]

\* restore_file run on its own from task, the store and the blob store
\* accepting everything: the batches it writes, in order.
RECURSIVE SoloWrites(_)
SoloWrites(task) ==
    IF task.pc \in {"done", "failed", "panicked"} THEN <<>>
    ELSE LET o == CASE task.pc = "open" ->
                          IF OpReaderNew(FileOf(task))
                          THEN Out([task EXCEPT !.pos = 2, !.pc = "loop"], <<>>, <<>>, FALSE)
                          ELSE Exit(task, "format")
                     [] task.pc = "loop" ->
                          LET rec == OpReaderNext(FileOf(task), task.pos)
                          IN  IF rec.kind = "None" THEN FinalFlush(task, TRUE)
                              ELSE RecordStep(task, rec, TRUE, TRUE)
                     [] OTHER -> Expand(task, TRUE)
         IN  o.write \o SoloWrites(o.task)

\* The sum of the deltas the contents solo[t], t in F, hold under key k.
RECURSIVE SumOver(_, _, _)
SumOver(solo, k, F) ==
    IF Cardinality(F) = 1 THEN solo[CHOOSE t \in F : TRUE][k].val
    ELSE LET t == CHOOSE u \in F : TRUE
         IN  AddI64(solo[t][k].val, SumOver(solo, k, F \ {t}))

\* store is the union of the contents solo[t]: it has the keys they have;
\* under a key only deltas were added to, the sum of them all; under a key
\* one content sets, what that content holds; under a key several contents
\* set, what one of them holds.
IsUnion(store, solo) ==
    /\ DOMAIN store = UNION {DOMAIN solo[t] : t \in DOMAIN solo}
    /\ \A k \in DOMAIN store :
          LET F == {t \in DOMAIN solo : k \in DOMAIN solo[t]}
          IN  IF \A t \in F : solo[t][k].kind = "add"
              THEN store[k] = [kind |-> "add", val |-> SumOver(solo, k, F)]
              ELSE IF \A t \in F : solo[t][k].kind = "set"
              THEN \E t \in F : store[k] = solo[t][k]
              ELSE store[k].kind = "set"

\* C7: when restore of a directory has returned, there is one unit per
\* regular file of the listing, every unit has finished and has written,
\* final flush included, exactly the batches its file yields when restored
\* alone, and the destination store holds the union of the contents the
\* files yield alone, in whatever order the units' writes were applied.
C7_DirectoryUnion ==
    (src.dir /\ proc = "returned") =>
        /\ Len(tasks) = Cardinality({i \in DOMAIN src.entries : src.entries[i].is_file})
        /\ \A t \in DOMAIN tasks :
              /\ tasks[t].pc = "done"
              /\ Batches(WritesOf(t)) = SoloWrites(InitTask(tasks[t].path))
        /\ IsUnion(StoreContent(Batches(writes)),
                   [t \in DOMAIN tasks |->
                       StoreContent(SoloWrites(InitTask(tasks[t].path)))])

\* A directory restore has returned after the second unit wrote first and
\* the first unit wrote between two writes of the second.
C7_Witness ==
    /\ src.dir
    /\ proc = "returned"
    /\ Len(tasks) = 2
    /\ Len(writes) = 3
    /\ writes[1].task = 2
    /\ writes[2].task = 1
    /\ writes[3].task = 2

(***************************************************************************)
(* C8: failure of a unit of a directory restore                            *)
(***************************************************************************)
\* Unit t has failed: failed(..) ended the process in it, or it panicked.
UnitFailed(t) == tasks[t].pc \in {"failed", "panicked"}

\* C8: in a directory restore, restore never returns once a unit has
\* failed for a format error, an I/O error, a refused store write or a
\* refused blob put; a failed(..) in a unit has ended the process already,
\* and while the process runs on after a panic of a unit, some unit can
\* still step or restore can await the next unit, so that restore reaches
\* the panicked unit, whose await ends the process.
C8_FailurePropagates ==
    src.dir =>
        \A t \in DOMAIN tasks :
            /\ UnitFailed(t) =>
                  /\ tasks[t].err \in {"format", "io", "write", "put"}
                  /\ proc \in {"running", "exited"}
                  /\ joined < t
            /\ tasks[t].pc = "failed" => proc = "exited"
            /\ (proc = "returned" \/ joined >= t) => tasks[t].pc = "done"
            /\ (UnitFailed(t) /\ proc = "running") =>
                  \E u \in DOMAIN tasks :
                      \/ tasks[u].pc \in {"open", "loop", "bitmap"}
                      \/ joined = u - 1 /\ tasks[u].pc \in {"done", "panicked"}

\* A directory restore has ended in failure with one unit finished and
\* joined and a later one panicked on a refused blob put.
C8_Witness ==
    /\ src.dir
    /\ proc = "exited"
    /\ joined = 1
    /\ Len(tasks) = 2
    /\ tasks[1].pc = "done"
    /\ tasks[2].pc = "panicked"
    /\ tasks[2].err = "put"

(***************************************************************************)
(* C9: the end of the record stream                                        *)
(***************************************************************************)
\* The 4-byte length prefix at p, or the bytes it announces, run past the
\* end of file f; and where the sized field at p ends.
CutSized(f, p) ==
    \/ Len(f) < p + U32_LEN
    \/ Len(f) < p + U32_LEN + LenOfU32(SubSeq(f, p + 1, p + U32_LEN))
EndSized(f, p) == p + U32_LEN + LenOfU32(SubSeq(f, p + 1, p + U32_LEN))

\* File f has a record tag at pos and ends inside the fields the tag
\* announces: the family or collection byte, the four id bytes, a length
\* prefix or a payload.
FieldsCut(f, pos) ==
    /\ pos < Len(f)
    /\ LET tag == f[pos + 1]
       IN  \/ tag \in {0, 4} /\ Len(f) < pos + 2
           \/ tag \in {3, 5} /\ Len(f) < pos + 1 + U32_LEN
           \/ tag = 2 /\ CutSized(f, pos + 1)
           \/ tag = 1 /\ (CutSized(f, pos + 1) \/ CutSized(f, EndSized(f, pos + 1)))

\* C9: a unit that meets the end of its file where a record tag is expected
\* ends its loop (unless the read fails otherwise): it decodes nothing
\* more, writes the residual batch if there is one, and has finished when
\* the store takes the write.  A unit that meets the end of its file
\* inside the fields of a record fails, the process exits, and the record
\* adds no operation to the batch, no write and no put.
C9_EndOfStream ==
    [][\A t \in DOMAIN tasks :
          (proc = "running" /\ tasks[t].pc = "loop" /\ Stepped(t)) =>
              LET f == FileOf(tasks[t])
                  pos == tasks[t].pos
                  batch == tasks[t].batch
              IN  /\ (pos = Len(f) /\ tasks'[t].err # "io") =>
                        /\ tasks'[t].pos = pos
                        /\ tasks'[t].batch = batch
                        /\ blobs' = blobs
                        /\ IF is_empty(batch)
                           THEN tasks'[t].pc = "done" /\ writes' = writes
                           ELSE \/ /\ tasks'[t].pc = "done"
                                   /\ writes' = Append(writes, [task |-> t, ops |-> batch])
                                \/ /\ tasks'[t].pc = "failed"
                                   /\ tasks'[t].err = "write"
                                   /\ proc' = "exited"
                                   /\ writes' = writes
                  /\ FieldsCut(f, pos) =>
                        /\ tasks'[t].pc = "failed"
                        /\ tasks'[t].err \in {"format", "io"}
                        /\ proc' = "exited"
                        /\ tasks'[t].batch = batch
                        /\ tasks'[t].pos = pos
                        /\ writes' = writes
                        /\ blobs' = blobs]_vars

\* In a directory, one unit has finished at the clean end of its file with
\* its residual batch written, and another has failed on a record whose
\* fields the end of the file cuts.
C9_Witness ==
    /\ src.dir
    /\ \E t, u \in DOMAIN tasks :
          /\ tasks[t].pc = "done"
          /\ tasks[t].pos = Len(FileOf(tasks[t]))
          /\ WritesOf(t) # <<>>
          /\ Last(WritesOf(t)).ops = tasks[t].batch
          /\ tasks[u].pc = "failed"
          /\ tasks[u].err = "format"
          /\ tasks[u].pos >= 2
          /\ FieldsCut(FileOf(tasks[u]), tasks[u].pos)

(***************************************************************************)
(* C10: unknown tags                                                       *)
(***************************************************************************)
\* The record at pos of file f, read under family, carries a tag the
\* format does not know: a record tag outside 0..5, a family byte outside
\* 0..11, or the first key byte of a whole KeyValue record outside 0..6
\* under Directory, 0..1 under Queue, 0..4 under Bitmap.
UnknownTag(f, pos, family) ==
    /\ pos < Len(f)
    /\ LET tag == f[pos + 1]
       IN  \/ tag \notin 0..5
           \/ tag = 0 /\ Len(f) >= pos + 2 /\ f[pos + 2] \notin 0..11
           \/ /\ tag \in {1, 2}
              /\ ~FieldsCut(f, pos)
              /\ EndSized(f, pos + 1) > pos + 1 + U32_LEN
              /\ LET sub == f[pos + 2 + U32_LEN]
                 IN  \/ family = "Directory" /\ sub \notin 0..6
                     \/ family = "Queue" /\ sub \notin 0..1
                     \/ family = "Bitmap" /\ sub \notin 0..4

\* C10: the step of a unit on a record with an unknown tag aborts the
\* restore of the file (failed(..) ends the process, or the unit panics),
\* and the record adds no operation to the batch, no write and no put.
C10_UnknownTagsFatal ==
    [][\A t \in DOMAIN tasks :
          (/\ proc = "running"
           /\ tasks[t].pc = "loop"
           /\ Stepped(t)
           /\ UnknownTag(FileOf(tasks[t]), tasks[t].pos, tasks[t].family)) =>
              /\ \/ tasks'[t].pc = "failed" /\ proc' = "exited"
                 \/ tasks'[t].pc = "panicked"
              /\ tasks'[t].err \in {"format", "io"}
              /\ tasks'[t].batch = tasks[t].batch
              /\ tasks'[t].pos = tasks[t].pos
              /\ writes' = writes
              /\ blobs' = blobs]_vars

\* A unit has failed on a record with an unknown subtype after a record
\* with a known one put an operation in its batch.
C10_Witness ==
    \E t \in DOMAIN tasks :
        /\ tasks[t].pc = "failed"
        /\ tasks[t].err = "format"
        /\ tasks[t].family \in {"Directory", "Queue", "Bitmap"}
        /\ tasks[t].nkv >= 1
        /\ ~is_empty(tasks[t].batch)
        /\ UnknownTag(FileOf(tasks[t]), tasks[t].pos, tasks[t].family)

(***************************************************************************)
(* C11: encounter order                                                    *)
(***************************************************************************)
\* The operations of ops that are not context-setting, in order.
NonContext(ops) ==
    LET Keep(o) == ~IsContextOp(o)
    IN  SelectSeq(ops, Keep)

\* The membership operations a unit in the middle of a Bitmap expansion has
\* still to push.
Pending(task) == [i \in 1..Len(task.ids) |-> OpBitmap(task.class)]

\* The operations the record at the reader's position translates to under
\* the unit's decode context: none for a context record, one per document
\* id for a Bitmap record.
RecordYield(task) ==
    LET rec == OpReaderNext(FileOf(task), task.pos)
        r == Translate(task.family, task.account_id, task.document_id,
                       task.collection, rec.a, rec.b)
    IN  IF task.pc # "loop" \/ rec.kind # "KeyValue" THEN <<>>
        ELSE IF r.status = "bitmap" THEN [i \in 1..Len(r.ids) |-> OpBitmap(r.class)]
        ELSE r.ops

\* The operations of unit t not yet written: those of its batch, until the
\* residual flush has dealt with it, and those its expansion has to push.
Unwritten(task) ==
    (IF task.pc = "done" THEN <<>> ELSE NonContext(task.batch)) \o Pending(task)

\* C11: every step of a unit that does not abort it keeps the sequence
\* "operations written, then operations waiting in the batch" equal to the
\* operations translated so far, in file order: the step appends at most
\* one batch to the store's log, and what it writes followed by what it
\* leaves unwritten is what was unwritten before followed by the operations
\* of the record it decoded.  Earlier writes are never changed, and a step
\* that aborts the unit writes nothing.  So the
\* batches of a file, context operations removed, concatenate to the
\* operations of its records in file order.
C11_EncounterOrder ==
    [][\A t \in DOMAIN tasks :
          (proc = "running" /\ Stepped(t)) =>
              /\ \/ writes' = writes
                 \/ /\ Len(writes') = Len(writes) + 1
                    /\ SubSeq(writes', 1, Len(writes)) = writes
                    /\ Last(writes').task = t
              /\ tasks'[t].pc \notin {"failed", "panicked"} =>
                    (IF writes' = writes THEN <<>> ELSE NonContext(Last(writes').ops))
                        \o Unwritten(tasks'[t])
                    = Unwritten(tasks[t]) \o RecordYield(tasks[t])
              /\ tasks'[t].pc \in {"failed", "panicked"} => writes' = writes]_vars

\* A unit has finished after three writes, the operations of its 2001
\* records all written: 1000, 997 and 4 of them.
C11_Witness ==
    \E t \in DOMAIN tasks :
        /\ tasks[t].pc = "done"
        /\ tasks[t].nkv = 2001
        /\ Len(WritesOf(t)) = 3
        /\ Len(NonContext(WritesOf(t)[1].ops)) + Len(NonContext(WritesOf(t)[2].ops))
              + Len(NonContext(WritesOf(t)[3].ops)) = 2001

(***************************************************************************)
(* C12: the flush at the end of the stream                                 *)
(***************************************************************************)
\* C12: when a unit meets the clean end of its file (and the read does not
\* fail otherwise), a residual batch holding operations of records is
\* handed to the store once, as it stands, and the unit has finished when
\* the store takes it; a residual batch holding none causes no write.  A
\* finished unit takes no further step and writes nothing more.  So a
\* finished unit has no operation left unwritten.
C12_EndOfStreamFlush ==
    [][\A t \in DOMAIN tasks :
          /\ (/\ proc = "running"
              /\ tasks[t].pc = "loop"
              /\ tasks[t].pos >= Len(FileOf(tasks[t]))
              /\ Stepped(t)
              /\ tasks'[t].err # "io") =>
                 IF NonContext(tasks[t].batch) = <<>>
                 THEN writes' = writes /\ tasks'[t].pc = "done"
                 ELSE \/ /\ writes' = Append(writes, [task |-> t, ops |-> tasks[t].batch])
                         /\ tasks'[t].pc = "done"
                      \/ /\ writes' = writes
                         /\ tasks'[t].pc = "failed"
                         /\ tasks'[t].err = "write"
          /\ tasks[t].pc = "done" =>
                 /\ tasks'[t] = tasks[t]
                 /\ writes' # writes => Last(writes').task # t
                 /\ \/ NonContext(tasks[t].batch) = <<>>
                    \/ Last(WritesOf(t)).ops = tasks[t].batch]_vars

\* A unit has finished a file of 1000 records: the 1000th filled the batch,
\* which was written, and the residual batch, holding the re-seeded context
\* operations only, caused no second write.
C12_Witness ==
    \E t \in DOMAIN tasks :
        /\ tasks[t].pc = "done"
        /\ tasks[t].nkv = 1000
        /\ Len(tasks[t].batch) = 3
        /\ NonContext(tasks[t].batch) = <<>>
        /\ Len(WritesOf(t)) = 1

(***************************************************************************)
(* C13: round trip.  The Snapshot Writer is modelled by its contract: it   *)
(* traverses the entries of a store state in some order and emits, for     *)
(* each, an AccountId, Collection or DocumentId record for every context   *)
(* value the entry is kept under that differs from the one emitted last, a *)
(* Family record if the family differs from the one emitted last, and the  *)
(* entry's KeyValue or KeyOnly record.                                     *)
(***************************************************************************)
\* An entry of a store state: the family it belongs to, what it is kept
\* under (scope "doc": account, collection and document; "coll": account
\* and collection; "blob": no account and no document; "global": nothing),
\* its key and value bytes in the family's layout, and what the store
\* holds for it: class, kind ("set" or "add") and val, or, for a Bitmap
\* entry, membership of the document ids.
Entry(family, scope, key, value, class, kind, val) ==
    [family |-> family, scope |-> scope, a |-> A1, c |-> CollectionMailbox, d |-> D1,
     key |-> key, value |-> value, class |-> class, kind |-> kind, val |-> val,
     ids |-> {}]

EntryMenu ==
    [prop |-> Entry(0, "doc", <<2>>, V2, <<"Property", 2>>, "set", V2),
     prop2 |-> [Entry(0, "doc", <<3>>, V1, <<"Property", 3>>, "set", V1) EXCEPT !.d = A2],
     uidnext |-> Entry(0, "doc", <<PropertyEmailIds>>, V8,
                       <<"Property", PropertyEmailIds>>, "add", V8),
     term |-> Entry(1, "doc", <<3, 4>>, <<>>, <<"TermIndex">>, "set", <<3, 4>>),
     acl |-> Entry(2, "doc", A2, V1, <<"Acl", A2>>, "set", V1),
     link |-> Entry(3, "doc", Hash32, <<>>, <<"Blob", "Link", Hash32>>, "set", <<>>),
     blob |-> Entry(3, "blob", Hash32, V2, <<"Blob", "Commit", Hash32>>, "set", <<>>),
     config |-> Entry(4, "global", <<1>>, V1, <<"Config", <<1>>>>, "set", V1),
     lookup |-> Entry(5, "global", <<1>>, V2, <<"LookupKey", <<1>>>>, "set", V2),
     counter |-> Entry(6, "global", <<1>>, W8, <<"LookupCounter", <<1>>>>, "add", W8),
     principal |-> Entry(7, "global", <<2, 5>>, V1,
                         <<"Directory", "Principal", <<5>>>>, "set", V1),
     quota |-> Entry(7, "global", <<4, 5>>, V8,
                     <<"Directory", "UsedQuota", <<5>>>>, "add", V8),
     queue |-> Entry(8, "global", <<0>> \o Q8, V1, <<"Queue", "Message", Q8>>, "set", V1),
     index |-> Entry(9, "doc", <<3, 1, 2>>, <<>>, <<"Index", 3, <<1, 2>>>>, "set", <<1>>),
     tag |-> [Entry(10, "coll", <<1, 6>> \o A1, Ids3, <<"Tag", 6, "Id", A1>>, "set", <<1>>)
                EXCEPT !.ids = {<<0, 0, 0, 3>>, <<0, 0, 0, 7>>, <<0, 0, 0, 42>>}],
     docids |-> [Entry(10, "coll", <<0>>, BitmapOfFirst(500), <<"DocumentIds">>, "set", <<1>>)
                   EXCEPT !.ids = {U32Of(i) : i \in 1..500}],
     log |-> Entry(11, "coll", Q8, V1, <<"Log", Q8, CollectionMailbox>>, "set", V1)]

\* What the store holds for entry e.
EntryContent(e) ==
    CASE e.family = 10 ->
            [k \in {<<e.a, e.c, id, e.class>> : id \in e.ids} |->
                [kind |-> e.kind, val |-> e.val]]
      [] e.family = 11 -> <<e.a, e.class>> :> [kind |-> e.kind, val |-> e.val]
      [] e.scope = "doc" -> <<e.a, e.c, e.d, e.class>> :> [kind |-> e.kind, val |-> e.val]
      [] OTHER -> <<e.class>> :> [kind |-> e.kind, val |-> e.val]

\* The store state made of the entries named in names, and the blobs it
\* keeps in the blob store.
RECURSIVE StateContent(_)
StateContent(names) ==
    IF names = <<>> THEN <<>>
    ELSE EntryContent(EntryMenu[Head(names)]) @@ StateContent(Tail(names))

StateBlobs(names) ==
    {[key |-> EntryMenu[names[i]].key, value |-> EntryMenu[names[i]].value] :
        i \in {j \in 1..Len(names) : EntryMenu[names[j]].scope = "blob"}}

\* The context values entry e is kept under; the unset value for those it
\* is not kept under, which the writer passes over, except that a blob is
\* exported under no account and no document.
EntryContext(e, last) ==
    [family |-> e.family,
     a |-> IF e.scope \in {"doc", "coll"} THEN e.a
           ELSE IF e.scope = "blob" THEN U32_MAX ELSE last.a,
     c |-> IF e.scope \in {"doc", "coll"} THEN e.c ELSE last.c,
     d |-> IF e.scope = "doc" THEN e.d
           ELSE IF e.scope = "blob" THEN U32_MAX ELSE last.d]

\* The records the writer emits for the entries names[i..], last being the
\* family and context values it emitted last.
RECURSIVE WriterFrom(_, _, _)
WriterFrom(names, i, last) ==
    IF i > Len(names) THEN <<>>
    ELSE LET e == EntryMenu[names[i]]
             now == EntryContext(e, last)
         IN  (IF now.a # last.a THEN RAccountId(now.a) ELSE <<>>)
             \o (IF now.c # last.c THEN RCollection(now.c) ELSE <<>>)
             \o (IF now.d # last.d THEN RDocumentId(now.d) ELSE <<>>)
             \o (IF now.family # last.family THEN RFamily(now.family) ELSE <<>>)
             \o (IF e.value = <<>> THEN RKeyOnly(e.key) ELSE RKeyValue(e.key, e.value))
             \o WriterFrom(names, i + 1, now)

\* The snapshot file of the store state whose entries are traversed in the
\* order names.
Writer(names) ==
    Header \o WriterFrom(names, 1, [family |-> 255, a |-> U32_MAX, c |-> U8_MAX,
                                    d |-> U32_MAX])

\* The entries a state has at most.
MaxEntries == 3

\* Sequences of at most n different elements of S.
DistinctSeqsUpTo(S, n) ==
    {s \in SeqsUpTo(S, n) : \A i, j \in 1..Len(s) : i # j => s[i] # s[j]}

\* The snapshots of the store states of at most MaxEntries entries, every
\* traversal order of each.
RoundTripSources ==
    {[dir |-> FALSE, entries |-> <<FileEntry(Writer(names))>>, state |-> names] :
        names \in DistinctSeqsUpTo(DOMAIN EntryMenu, MaxEntries)}

SpecRoundTrip == InitWith(RoundTripSources) /\ [][Next]_vars

C14_ThresholdBoundsBatch ==
    \A t \in DOMAIN tasks :
        (proc = "running" /\ tasks[t].pc = "loop") => Len(tasks[t].batch) < FlushThreshold

(***************************************************************************)
(* C15: threshold accounting of the Bitmap expansion                       *)
(***************************************************************************)
\* The first of k ids after which a batch that held n operations holds 1000
\* or more, each id adding w operations; 0 if none of them gets there.
FirstFull(n, k, w) ==
    LET S == {j \in 1..k : n + w * j >= FlushThreshold}
    IN  IF S = {} THEN 0 ELSE CHOOSE j \in S : \A i \in S : j <= i

\* The document ids unit t has to expand: those of the Bitmap record at the
\* reader's position, or what is left of an expansion under way.
IdsToExpand(task) ==
    IF task.pc = "bitmap" THEN task.ids
    ELSE Translate(task.family, task.account_id, task.document_id, task.collection,
                   OpReaderNext(FileOf(task), task.pos).a,
                   OpReaderNext(FileOf(task), task.pos).b).ids

\* Unit t expands document ids in this step and is not aborted by it.
Expanding(t) ==
    /\ proc = "running"
    /\ Stepped(t)
    /\ tasks'[t].pc \notin {"failed", "panicked"}
    /\ \/ tasks[t].pc = "bitmap"
       \/ /\ tasks[t].pc = "loop"
          /\ tasks[t].family = "Bitmap"
          /\ OpReaderNext(FileOf(tasks[t]), tasks[t].pos).kind = "KeyValue"

\* The membership operations among ops.
Memberships(ops) == Cardinality({i \in 1..Len(ops) : ops[i].op = "Bitmap"})

\* An expansion step of unit t, each id counting w operations: if the batch
\* gets to 1000 operations at the j-th id, the step writes the batch with
\* the memberships of the first j ids and leaves the other ids to expand;
\* if it does not get there, the step writes nothing and all ids are in the
\* batch.
ExpansionCounts(t, w) ==
    LET n == Len(tasks[t].batch)
        k == Len(IdsToExpand(tasks[t]))
        j == FirstFull(n, k, w)
    IN  IF j = 0
        THEN /\ writes' = writes
             /\ Memberships(tasks'[t].batch) = Memberships(tasks[t].batch) + k
             /\ tasks'[t].ids = <<>>
        ELSE /\ Len(writes') = Len(writes) + 1
             /\ Last(writes').task = t
             /\ Len(Last(writes').ops) = n + w * j
             /\ Memberships(Last(writes').ops) = Memberships(tasks[t].batch) + j
             /\ Len(tasks'[t].ids) = k - j

\* C15 as stated: each id counts as one operation toward the threshold.
C15_OneOperationPerId ==
    [][\A t \in DOMAIN tasks : Expanding(t) => ExpansionCounts(t, 1)]_vars

\* C15, amended: each id adds two operations to the batch, a DocumentId
\* operation and the membership operation, and the threshold is tested
\* after each id: a bitmap expanded into a batch of n operations triggers
\* its first write at the first id j with n + 2j >= 1000, and the batch
\* written holds n + 2j operations.
C15_TwoOperationsPerId ==
    [][\A t \in DOMAIN tasks : Expanding(t) => ExpansionCounts(t, 2)]_vars

\* A bitmap of 500 ids was expanded into a batch of 3 operations: the first
\* write came at the 499th id, with 1001 operations, and the last id is in
\* the batch.
C15_Witness ==
    \E t \in DOMAIN tasks :
        /\ tasks[t].pc = "loop"
        /\ tasks[t].family = "Bitmap"
        /\ Len(WritesOf(t)) = 1
        /\ Len(WritesOf(t)[1].ops) = 1001
        /\ Memberships(WritesOf(t)[1].ops) = 499
        /\ Memberships(tasks[t].batch) = 1

(***************************************************************************)
(* C16: no KeyValue record before a Family record                          *)
(***************************************************************************)
\* A Family record lies among the records of file from position from up to
\* position upto.
RECURSIVE FamilyRead(_, _, _)
FamilyRead(file, from, upto) ==
    IF from >= upto THEN FALSE
    ELSE LET rec == OpReaderNext(file, from)
         IN  \/ rec.kind = "Family"
             \/ /\ rec.kind \notin {"None", "Failed"}
                /\ FamilyRead(file, rec.pos, upto)

\* The unit has read a Family record of its file.
FamilySeen(task) == FamilyRead(FileOf(task), Len(Header), task.pos)

\* Unit t, which has read no Family record, takes a step on a record of one of
\* kinds.
StepBeforeFamily(t, kinds) ==
    /\ proc = "running"
    /\ tasks[t].pc = "loop"
    /\ ~FamilySeen(tasks[t])
    /\ OpReaderNext(FileOf(tasks[t]), tasks[t].pos).kind \in kinds
    /\ Stepped(t)

\* The decode-context field a context record sets, and the value it sets.
FieldOf(kind) ==
    CASE kind = "Family" -> "family"
      [] kind = "AccountId" -> "account_id"
      [] kind = "Collection" -> "collection"
      [] kind = "DocumentId" -> "document_id"
ValueOf(rec) == IF rec.kind \in {"Family", "Collection"} THEN rec.a[1] ELSE rec.a

\* C16: the family of a unit is unset until it has read a Family record of
\* its file; a KeyValue or KeyOnly record read before that ends the process
\* (failed, line 317) with no operation added to the batch, no store write
\* and no blob put; an AccountId, Collection or DocumentId record read
\* before that is taken into the context and the loop goes on (unless the
\* read itself fails).
C16_FamilyBeforeData ==
    /\ [](\A t \in DOMAIN tasks : ~FamilySeen(tasks[t]) => tasks[t].family = "None")
    /\ [][\A t \in DOMAIN tasks :
            /\ StepBeforeFamily(t, {"KeyValue"}) =>
                  /\ tasks'[t].pc = "failed"
                  /\ proc' = "exited"
                  /\ tasks'[t].batch = tasks[t].batch
                  /\ writes' = writes
                  /\ blobs' = blobs
            /\ StepBeforeFamily(t, {"AccountId", "Collection", "DocumentId"}) =>
                  LET rec == OpReaderNext(FileOf(tasks[t]), tasks[t].pos)
                  IN  \/ tasks'[t].pc = "failed" /\ tasks'[t].err = "io"
                      \/ /\ tasks'[t].pc = "loop"
                         /\ proc' = "running"
                         /\ tasks'[t].pos = rec.pos
                         /\ tasks'[t][FieldOf(rec.kind)] = ValueOf(rec)
                         /\ tasks'[t].family = "None"]_vars

\* A unit took an account id, a collection and a document id into its
\* context and then failed on a KeyOnly record, no Family record read.
C16_Witness ==
    \E t \in DOMAIN tasks :
        /\ proc = "exited"
        /\ tasks[t].pc = "failed"
        /\ tasks[t].err = "format"
        /\ tasks[t].family = "None"
        /\ tasks[t].nctx = 3
        /\ Len(tasks[t].batch) = 3
        /\ tasks[t].pos < Len(FileOf(tasks[t]))
        /\ FileOf(tasks[t])[tasks[t].pos + 1] = 2
        /\ writes = <<>>

(***************************************************************************)
(* C17: what a record does to the decode context                           *)
(***************************************************************************)
ContextFields == {"family", "account_id", "collection", "document_id"}
ContextKinds == {"Family", "AccountId", "Collection", "DocumentId"}

\* A step of unit t changes no field of its decode context but the one the
\* record it reads is for, and sets that one to the record's value (unless
\* the read fails).
OneFieldOnly(t) ==
    LET rec == OpReaderNext(FileOf(tasks[t]), tasks[t].pos)
        own == IF tasks[t].pc = "loop" /\ rec.kind \in ContextKinds
               THEN {FieldOf(rec.kind)} ELSE {}
    IN  /\ \A F \in ContextFields \ own : tasks'[t][F] = tasks[t][F]
        /\ \A F \in own : tasks'[t].pc = "failed" \/ tasks'[t][F] = ValueOf(rec)

\* The decode context of a unit as a cursor.
ContextOf(task) ==
    [account_id |-> task.account_id, collection |-> task.collection,
     document_id |-> task.document_id]

\* The operations a record of another family than Bitmap adds to the batch
\* of unit t are applied to the store under the account id, collection and
\* document id of the decode context.
TranslatedUnderContext(t) ==
    LET ops == RecordYield(tasks[t])
        at == CursorAfter(tasks[t].batch, 1, Len(tasks[t].batch), Cursor0)
    IN  (KeyValueDone(t) /\ tasks[t].family # "Bitmap" /\ ops # <<>>)
        => \A i \in 1..Len(ops) : KeyOf(at, ops[i]) = KeyOf(ContextOf(tasks[t]), ops[i])

\* C17: a context record replaces its own field of the decode context and
\* no other, a KeyValue/KeyOnly record replaces none, and the values of the
\* decode context are the ones in force for a later record: the ones its
\* operations are applied under.
C17_ContextInForce ==
    [][\A t \in DOMAIN tasks :
          (proc = "running" /\ Stepped(t)) => OneFieldOnly(t) /\ TranslatedUnderContext(t)]_vars

(***************************************************************************)
(* C18: the decode context of a unit is its own                            *)
(***************************************************************************)
\* The four fields of a unit's decode context, and the context of a unit
\* that has read no record.
Context4(task) ==
    [family |-> task.family, account_id |-> task.account_id,
     collection |-> task.collection, document_id |-> task.document_id]
UnsetContext ==
    [family |-> "None", account_id |-> U32_MAX, collection |-> U8_MAX,
     document_id |-> U32_MAX]

\* The context the records of file between the positions from and upto make
\* of the context c, read on their own.
RECURSIVE ContextAt(_, _, _, _)
ContextAt(file, from, upto, c) ==
    IF from >= upto THEN c
    ELSE LET rec == OpReaderNext(file, from)
         IN  IF rec.kind \in {"None", "Failed"} THEN c
             ELSE IF rec.kind \in ContextKinds
             THEN ContextAt(file, rec.pos, upto, [c EXCEPT ![FieldOf(rec.kind)] = ValueOf(rec)])
             ELSE ContextAt(file, rec.pos, upto, c)

\* C18: restore starts every unit with an unset decode context and an empty
\* batch; in every state the decode context of a unit is what the records
\* it has read of its own file make of the unset context, whatever the
\* other units have done; and a step of one unit changes nothing of another
\* unit, neither its context nor its batch.
C18_ContextIsolation ==
    /\ [](\A t \in DOMAIN tasks :
            Context4(tasks[t])
                = ContextAt(FileOf(tasks[t]), Len(Header), tasks[t].pos, UnsetContext))
    /\ [][/\ proc = "init" =>
                \A t \in DOMAIN tasks' :
                    /\ Context4(tasks'[t]) = UnsetContext
                    /\ tasks'[t].batch = BatchNew
                    /\ tasks'[t].pos = 0
          /\ \A t \in DOMAIN tasks :
                Stepped(t) => \A u \in DOMAIN tasks \ {t} : tasks'[u] = tasks[u]]_vars

\* Two units of a directory restore in the middle of their files, one under
\* an account, the Mailbox collection, a document and the family
\* LookupCounter, the other under the family Config with nothing else set.
C18_Witness ==
    \E t, u \in DOMAIN tasks :
        /\ src.dir
        /\ proc = "running"
        /\ tasks[t].pc = "loop" /\ tasks[u].pc = "loop"
        /\ tasks[t].nkv = 0 /\ tasks[u].nkv = 0
        /\ Context4(tasks[t])
               = [family |-> "LookupCounter", account_id |-> A1,
                  collection |-> CollectionMailbox, document_id |-> D1]
        /\ Context4(tasks[u]) = [UnsetContext EXCEPT !.family = "Config"]

(***************************************************************************)
(* C19: when a directory restore observes the failure of a unit            *)
(***************************************************************************)
\* The step ends a directory restore: the abort is surfaced.
AbortSurfaced == src.dir /\ proc = "running" /\ proc' = "exited"

\* C19 as stated: when the abort is surfaced, every unit but the ones that
\* failed has been awaited.
C19_ObservedAfterAllAwaited ==
    [][AbortSurfaced =>
          \A u \in DOMAIN tasks :
              u <= joined \/ tasks'[u].pc \in {"failed", "panicked"}]_vars

\* C19, amended: the abort of a directory restore is surfaced either by the
\* step of a unit that fails with failed(..), at once and whatever has been
\* awaited, or by the await of a unit that has panicked, which comes when
\* the units listed before it have ended and been awaited and does not wait
\* for the units listed after it; a panicked unit is never counted as
\* awaited.
C19_FailureObserved ==
    [][/\ AbortSurfaced =>
             \/ \E t \in DOMAIN tasks :
                   /\ Stepped(t)
                   /\ tasks[t].pc \notin {"failed", "panicked", "done"}
                   /\ tasks'[t].pc = "failed"
             \/ /\ tasks' = tasks /\ writes' = writes
                /\ joined < Len(tasks)
                /\ tasks[joined + 1].pc = "panicked"
                /\ \A u \in 1..joined : tasks[u].pc = "done"
       /\ \A t \in DOMAIN tasks' : tasks'[t].pc = "panicked" => joined' < t]_vars

\* The abort of a directory restore surfaced at the await of its first
\* unit, which panicked, when the second unit, not awaited, has written its
\* batch to the destination store.
C19_Witness ==
    /\ src.dir
    /\ proc = "exited"
    /\ Len(tasks) = 2
    /\ joined = 0
    /\ tasks[1].pc = "panicked"
    /\ tasks[2].pc = "done"
    /\ WritesOf(2) # <<>>

(***************************************************************************)
(* C20: a blob is in the blob store before its commit operation exists     *)
(***************************************************************************)
\* The hashes the commit operations among ops are for.
CommitsOf(ops) ==
    {ops[i].class[3] : i \in {j \in 1..Len(ops) :
                                 /\ ~IsContextOp(ops[j])
                                 /\ Len(ops[j].class) = 3
                                 /\ ops[j].class[1] = "Blob"
                                 /\ ops[j].class[2] = "Commit"}}

\* The keys the blob store holds a value under.
BlobKeys == {b.key : b \in blobs}

\* Unit t is about to decode a Blob record with a key of hash length while
\* account id or document id is unset, and takes a step.
CommitPathStep(t) ==
    /\ proc = "running"
    /\ tasks[t].pc = "loop"
    /\ tasks[t].family = "Blob"
    /\ tasks[t].account_id = U32_MAX \/ tasks[t].document_id = U32_MAX
    /\ OpReaderNext(FileOf(tasks[t]), tasks[t].pos).kind = "KeyValue"
    /\ Len(OpReaderNext(FileOf(tasks[t]), tasks[t].pos).a) = BLOB_HASH_LEN
    /\ Stepped(t)

\* C20: every commit operation, in a batch the destination store has
\* applied or in the batch of a unit, is for a hash the blob store holds;
\* a step on the commit path either puts the value and appends the commit
\* operation, or, the put (or the read) having failed, ends the unit with
\* the blob store, the batch and the destination store as they were; and a
\* unit that has ended this way takes no further step, so it never writes a
\* commit operation for that hash.
C20_BlobBeforeCommit ==
    /\ [](/\ \A i \in 1..Len(writes) : CommitsOf(writes[i].ops) \subseteq BlobKeys
          /\ \A t \in DOMAIN tasks : CommitsOf(tasks[t].batch) \subseteq BlobKeys)
    /\ [][\A t \in DOMAIN tasks :
            /\ CommitPathStep(t) =>
                  LET rec == OpReaderNext(FileOf(tasks[t]), tasks[t].pos)
                  IN  \/ /\ tasks'[t].pc = "loop"
                         /\ [task |-> t, key |-> rec.a, value |-> rec.b] \in blobs'
                         /\ NewOp(t) = OpSet(<<"Blob", "Commit", rec.a>>, <<>>)
                      \/ /\ \/ tasks'[t].pc = "panicked" /\ tasks'[t].err = "put"
                            \/ tasks'[t].pc = "failed" /\ tasks'[t].err = "io"
                         /\ blobs' = blobs
                         /\ writes' = writes
                         /\ tasks'[t].batch = tasks[t].batch
            /\ tasks[t].pc \in {"panicked", "failed"} => tasks'[t] = tasks[t]]_vars

\* A unit of a directory restore has put a blob and written its commit
\* operation, and another unit has been ended by a failed put, with nothing
\* put and nothing written.
C20_Witness ==
    \E t, u \in DOMAIN tasks :
        /\ tasks[t].pc = "done"
        /\ Len(WritesOf(t)) = 1
        /\ CommitsOf(WritesOf(t)[1].ops) = {Hash32}
        /\ blobs = {[task |-> t, key |-> Hash32, value |-> V2]}
        /\ tasks[u].pc = "panicked"
        /\ tasks[u].err = "put"
        /\ WritesOf(u) = <<>>

(***************************************************************************)
(* C21: additive or overwrite, for the Property family                     *)
(***************************************************************************)
\* Unit t is about to decode a Property record with a field byte, under the
\* Mailbox collection and with the field EmailIds.
MailboxEmailIds(t) ==
    /\ tasks[t].collection = CollectionMailbox
    /\ OpReaderNext(FileOf(tasks[t]), tasks[t].pos).a[1] = PropertyEmailIds

\* C21: a Property record that is decoded appends an additive operation on
\* the property of its field byte, with its 8-byte value as the delta, when
\* the collection of the decode context is Mailbox and the field is
\* EmailIds, and an overwrite of that property with its value for every
\* other collection and field; under Mailbox and EmailIds a value that is
\* not 8 bytes long is not applied at all: the unit panics.
C21_PropertyDispatch ==
    [][\A t \in DOMAIN tasks :
          LET rec == OpReaderNext(FileOf(tasks[t]), tasks[t].pos)
          IN  /\ FamilyRecordDone(t, "Property", 1) =>
                    IF MailboxEmailIds(t)
                    THEN /\ NewOp(t) = OpAdd(<<"Property", rec.a[1]>>, rec.b)
                         /\ Len(rec.b) = U64_LEN
                    ELSE NewOp(t) = OpSet(<<"Property", rec.a[1]>>, rec.b)
              /\ (/\ proc = "running" /\ tasks[t].pc = "loop" /\ Stepped(t)
                  /\ tasks[t].family = "Property"
                  /\ rec.kind = "KeyValue" /\ Len(rec.a) >= 1
                  /\ MailboxEmailIds(t) /\ Len(rec.b) # U64_LEN)
                 => /\ tasks'[t].pc \in {"panicked", "failed"}
                    /\ tasks'[t].batch = tasks[t].batch]_vars

\* An EmailIds record with an 8-byte value was decoded under a collection
\* other than Mailbox: it sits in the batch as an overwrite.
C21_Witness ==
    \E t \in DOMAIN tasks :
        /\ tasks[t].pc = "loop"
        /\ tasks[t].family = "Property"
        /\ tasks[t].collection = 0
        /\ tasks[t].nkv = 1
        /\ Last(tasks[t].batch) = OpSet(<<"Property", PropertyEmailIds>>, V8)

(***************************************************************************)
(* C22: the document of the batch after a Bitmap record                    *)
(***************************************************************************)
\* The document the next operation appended to a batch is applied under.
BatchDocument(batch) == CursorAfter(batch, 1, Len(batch), Cursor0).document_id

\* C22: the expansion of a Bitmap record leaves document_id of the decode
\* context as it was and leaves the batch on the last id expanded, or on no
\* document when its last act was the inner flush; from there on the
\* document of the batch stays where it is over Family, AccountId and
\* Collection records and over KeyValue/KeyOnly records of other families,
\* and is set to the document of the decode context again only by a
\* DocumentId record or by the flush after a record.
C22_DocumentAfterBitmap ==
    [][\A t \in DOMAIN tasks :
          (proc = "running" /\ Stepped(t) /\ tasks'[t].pc = "loop") =>
              LET rec == OpReaderNext(FileOf(tasks[t]), tasks[t].pos)
                  before == BatchDocument(tasks[t].batch)
                  after == BatchDocument(tasks'[t].batch)
                  flushed == writes' # writes
              IN  /\ Expanding(t) =>
                        /\ tasks'[t].document_id = tasks[t].document_id
                        /\ IF IdsToExpand(tasks[t]) = <<>>
                           THEN flushed \/ after = before
                           ELSE after = IF flushed THEN U32_MAX
                                        ELSE Last(IdsToExpand(tasks[t]))
                  /\ (tasks[t].pc = "loop" /\ ~Expanding(t)) =>
                        IF flushed THEN after = tasks'[t].document_id
                        ELSE IF rec.kind = "DocumentId"
                        THEN after = rec.a /\ tasks'[t].document_id = rec.a
                        ELSE after = before /\ tasks'[t].document_id = tasks[t].document_id]_vars

\* After a Bitmap record of the ids 1, 2, 3 read under document 7, an Index
\* record was decoded: document_id is still 7, and the Index operation sits
\* in the batch behind the operations of id 3, applied under document 3.
C22_Witness ==
    \E t \in DOMAIN tasks :
        LET b == tasks[t].batch
        IN  /\ tasks[t].pc = "loop"
            /\ tasks[t].family = "Index"
            /\ tasks[t].document_id = D1
            /\ Len(b) >= 3
            /\ b[Len(b)].op = "Index"
            /\ b[Len(b) - 1].op = "Bitmap"
            /\ b[Len(b) - 2] = OpDocumentId(U32Of(3))
            /\ BatchDocument(b) = U32Of(3)
            /\ KeyOf(CursorAfter(b, 1, Len(b), Cursor0), b[Len(b)])[3] = U32Of(3)

(***************************************************************************)
(* C23: what an aborted file leaves in the store                           *)
(***************************************************************************)
\* The sequence a is the beginning of the sequence b.
IsPrefix(a, b) == Len(a) <= Len(b) /\ SubSeq(b, 1, Len(a)) = a

\* Unit t has aborted: failed(..) or a panic ended it.
Aborted(t) == tasks[t].pc \in {"failed", "panicked"}

\* C23: no step takes a batch out of the store or changes one, and the step
\* that aborts a unit writes nothing; the batches an aborted unit has
\* written are the first batches of its file restored without failure,
\* whole and in order, each written by a flush at the threshold, and what
\* its active batch held is part of the batch that would have come next.
C23_NoRollback ==
    /\ [](\A t \in DOMAIN tasks :
            Aborted(t) =>
                LET solo == SoloWrites(InitTask(tasks[t].path))
                    mine == Batches(WritesOf(t))
                IN  /\ IsPrefix(mine, solo)
                    /\ \A i \in 1..Len(mine) : Len(mine[i]) >= FlushThreshold
                    /\ Len(solo) > Len(mine) =>
                          IsPrefix(tasks[t].batch, solo[Len(mine) + 1]))
    /\ [][/\ IsPrefix(writes, writes')
          /\ \A t \in DOMAIN tasks :
                (Stepped(t) /\ tasks'[t].pc \in {"failed", "panicked"}) => writes' = writes]_vars

\* A single file was aborted by a read error after two flushes of its
\* Bitmap expansion: both batches are in the store, and the membership of
\* the id expanded after them was in the active batch.
C23_Witness ==
    \E t \in DOMAIN tasks :
        /\ proc = "exited"
        /\ tasks[t].pc = "failed"
        /\ tasks[t].err = "io"
        /\ Len(WritesOf(t)) = 2
        /\ Memberships(tasks[t].batch) = 1

(***************************************************************************)
(* C24: a blob in the blob store whose commit was never written            *)
(***************************************************************************)
\* The hashes the commit operations of the batches applied are for.
CommittedHashes == UNION {CommitsOf(writes[i].ops) : i \in 1..Len(writes)}

\* C24: the step that decodes a Blob record on the commit path puts the
\* value into the blob store at once and leaves the commit operation in the
\* active batch, the store untouched as long as the batch stays below the
\* threshold; the blob store never loses a blob, and a step that aborts a
\* unit changes neither the blob store nor the destination store.
C24_PutNowCommitLater ==
    [][/\ blobs \subseteq blobs'
       /\ \A t \in DOMAIN tasks :
             LET rec == OpReaderNext(FileOf(tasks[t]), tasks[t].pos)
             IN  /\ (CommitPathStep(t) /\ tasks'[t].pc = "loop") =>
                       /\ [task |-> t, key |-> rec.a, value |-> rec.b] \in blobs'
                       /\ Len(tasks[t].batch) + 1 < FlushThreshold =>
                             /\ writes' = writes
                             /\ rec.a \in CommitsOf(tasks'[t].batch)
                 /\ (Stepped(t) /\ tasks'[t].pc \in {"failed", "panicked"}) =>
                       blobs' = blobs /\ writes' = writes]_vars

\* The restore of a single file has aborted after a Blob record on the
\* commit path: the blob store holds the blob, the commit operation was in
\* the active batch, and the destination store has no commit for the hash.
C24_Witness ==
    /\ ~src.dir
    /\ proc \in {"exited", "panicked"}
    /\ blobs = {[task |-> 1, key |-> Hash32, value |-> V2]}
    /\ Hash32 \in CommitsOf(tasks[1].batch)
    /\ Hash32 \notin CommittedHashes
    /\ tasks[1].pc \in {"failed", "panicked"}

(***************************************************************************)
(* C25: restoring a file a second time                                     *)
(***************************************************************************)
\* The store after the restore that has returned, and after the same file
\* was restored into it once more.
StoreOnce == StoreContent(Batches(writes))
StoreTwice == StoreContent(Batches(writes) \o SoloWrites(InitTask(1)))

\* The key is one of an additive value: a lookup counter, the used quota of
\* a principal, or EmailIds of a mailbox.
AdditiveKey(k) ==
    LET class == k[Len(k)]
    IN  \/ class[1] = "LookupCounter"
        \/ class[1] = "Directory" /\ class[2] = "UsedQuota"
        \/ /\ class[1] = "Property"
           /\ class[2] = PropertyEmailIds
           /\ k[2] = CollectionMailbox

\* The store twice holds what the store once holds, every additive value
\* doubled; the additive values are those of additive keys.
Replayed(once, twice) ==
    /\ DOMAIN twice = DOMAIN once
    /\ \A k \in DOMAIN once :
          /\ once[k].kind = "add" <=> AdditiveKey(k)
          /\ IF once[k].kind = "add"
             THEN twice[k] = [kind |-> "add", val |-> AddI64(once[k].val, once[k].val)]
             ELSE twice[k] = once[k]

\* C25: when the restore of a single file into an empty store has
\* returned, the additive values of the store are those of lookup counters,
\* used quotas and Mailbox EmailIds; restoring the file once more adds no
\* key and removes none, leaves every value an overwrite wrote, every index
\* entry and every bitmap membership as it is, and leaves every additive
\* value at twice what it was.
C25_ReplayTwice ==
    (~src.dir /\ proc = "returned") =>
        LET once == StoreOnce
            twice == StoreTwice
        IN  IF DOMAIN once = {} THEN DOMAIN twice = {} ELSE Replayed(once, twice)

\* A file with a Directory record of a principal and a UsedQuota record of
\* delta 5 was restored: restored again, the principal is as it was and the
\* used quota is 10.
C25_Witness ==
    /\ ~src.dir
    /\ proc = "returned"
    /\ tasks[1].family = "Directory"
    /\ tasks[1].nkv = 2
    /\ LET once == StoreOnce
           twice == StoreTwice
       IN  /\ Cardinality(DOMAIN once) = 2
           /\ \E k1, k2 \in DOMAIN once :
                 /\ once[k1] = [kind |-> "add", val |-> V8]
                 /\ twice[k1].val = <<10, 0, 0, 0, 0, 0, 0, 0>>
                 /\ once[k2].kind = "set"
                 /\ twice[k2] = once[k2]
====
